---- MODULE Spec2Model ----
(***************************************************************************)
(* Test-attempt lifecycle of examfit-backend                               *)
(* (src/src/controllers/student.controller.js): createTest, saveAnswer,    *)
(* submitTest, getTestResult and deleteTest running as concurrent request  *)
(* handlers over the TestAttempt collection, the Question bank and the     *)
(* result cache.  Every `await` of a handler is one atomic step; the       *)
(* MongoDB single-document operations (findOne, findOneAndUpdate,          *)
(* deleteOne, create) are atomic.  findOneAndUpdate leaves __v as it is:   *)
(* Mongoose increments the version key only in save().                     *)
(*                                                                         *)
(* Spec       the answer, submit, result and delete routes, called by any  *)
(*            caller on one attempt that is in the collection              *)
(* SpecCreate the create route on an empty collection                      *)
(* SpecRetry  one user submitting while deleting and re-creating the       *)
(*            attempt (the only way a conditional write fails repeatedly)  *)
(* SpecBank   the owner answering and submitting while editors change the  *)
(*            question bank                                                *)
(* SpecScore  one submit of an attempt of up to MaxQuestions questions,    *)
(*            answered in every possible way                               *)
(* SpecLife   all five routes from an empty collection, every attempt      *)
(*            used by the caller that started it                           *)
(* SpecCache  the submit, result and delete routes while the Redis         *)
(*            connection of the result cache comes and goes                *)
(* SpecSelect the create route with every kind of request body, while      *)
(*            questions are published and unpublished                      *)
(* SpecSubmit the submit route on a collection of two attempts             *)
(* SpecFair   the answer and submit routes under a fair event loop         *)
(* SpecStray  the answer route with question ids the attempt lacks         *)
(* SpecAuth   the optionalAuthenticate middleware in front of the routes   *)
(* SpecMemory the in-memory cache service called directly as time passes   *)
(* SpecTable  the answer and submit routes of the variant that keeps       *)
(*            attempts in an in-memory table                               *)
(***************************************************************************)
EXTENDS Integers, Sequences, FiniteSets, TLC

\* ---------------------------------------------------------------- bounds
MaxCalls == 2              \* handler invocations in one behaviour
MaxClock == 1              \* Date.now() takes the values 0..MaxClock
MaxRestarts == 2           \* attempts started again in SpecRetry
MaxQuestions == 4          \* questions of the attempts scored in SpecScore
MaxOption == 3             \* option indices are 0..MaxOption in SpecScore

\* ------------------------------------------------------ program constants
MaxRetries == 3            \* let retries = 3
ResultTtl == 3600000       \* cacheService.set(.., 60 * 60 * 1000)

\* ------------------------------------------------------------- encodings
Null == -1                 \* JavaScript null
Undef == -2                \* JavaScript undefined (field absent)
Users == {1, 2}            \* _id of the registered users
Callers == Users \cup {Null}   \* req.user as set by optionalAuthenticate
Creators == {1, Null}      \* callers that start attempts
Questions == {1, 2}         \* _id of the questions in the bank
Papers == {1, 2}            \* _id of the question papers that exist
Exams == {1}                \* _id of the exams that exist

\* question.questionPaper and question.exam: the questions of the bank are
\* those of paper 1 of exam 1; paper 2 has no question yet.
PaperOf(q) == 1
ExamOf(q) == 1

\* testId = test_<Date.now()>_<userId> or test_<Date.now()>_<sessionId>
TestIdOf(t, userId, sessionId) ==
  IF userId # Null THEN <<t, "u", userId>> ELSE <<t, "s", sessionId>>

VARIABLES
  db,          \* TestAttempt collection: testId -> document
  bank,        \* Question collection: question -> [status, correctIndex]
  cache,       \* Redis: testId -> cached result response
  isConnected, \* cacheService.isConnected: the Redis client is ready
  fallbackCache, \* cacheService.fallbackCache: testId -> [value, expiresAt]
  calls,       \* handler invocations in arrival order
  now,         \* last value Date.now() returned
  nextOid,     \* next MongoDB _id
  nextSession, \* next anonymous session token
  created      \* testIds handed out so far (what clients can ask for)

vars == <<db, bank, cache, isConnected, fallbackCache, calls, now,
                 nextOid, nextSession, created>>

\* ------------------------------------------------------------ JS helpers
\* Truthiness of an id-valued field (!test.userId).
Falsy(x) == x \in {Null, Undef}

\* Number(answer) on the option indices a client sends.
ToNumber(x) == x

\* Math.round(x) for x = a / b >= 0.
RoundDiv(a, b) == (2 * a + b) \div (2 * b)

\* Faulty variant: the score cut off after two decimals, not rounded.
ScoreOfTruncated(correct, len) == (correct * 10000) \div len

\* Faulty variant: Math.round(score * 100) not divided by 100 again.
ScoreOfUnscaled(correct, len) == 100 * RoundDiv(correct * 10000, len)

\* Math.round(score * 100) / 100 with score = (correct / len) * 100,
\* kept in hundredths of a percent.  The double arithmetic of the code
\* gives this value for every attempt of fewer than 160 questions.
ScoreOf(correct, len) == RoundDiv(correct * 10000, len)

RECURSIVE SortedSeq(_)
\* .sort({ createdAt: 1 }): questions are numbered in creation order.
SortedSeq(S) ==
  IF S = {} THEN <<>>
  ELSE LET m == CHOOSE x \in S : \A y \in S : x <= y
       IN <<m>> \o SortedSeq(S \ {m})

\* ------------------------------------------------------------ documents
NoResp == [status |-> 0, alreadySubmitted |-> FALSE, submitted |-> FALSE,
           score |-> Null, correct |-> Null, total |-> Null,
           results |-> <<>>, questions |-> <<>>]

Resp(code) == [NoResp EXCEPT !.status = code]

NewCall(op, user, tid, q, answer, flagged, pc) ==
  [op |-> op, user |-> user, tid |-> tid, questionId |-> q,
   answer |-> answer, flagged |-> flagged, pc |-> pc,
   \* req.body of createTest, question paper 1 unless the request says
   \* otherwise; other routes do not read it
   examId |-> Undef, questionPaperId |-> IF op = "create" THEN 1 ELSE Undef,
   questions |-> <<>>,
   \* req.headers.authorization, read by optionalAuthenticate
   authHeader |-> <<>>,
   \* a direct call of the in-memory cache: the value passed or returned
   \* (<<>> for null), the ttl passed and Date.now() at the call
   value |-> <<>>, ttl |-> Undef, at |-> Undef,
   retries |-> MaxRetries, test |-> <<>>, testQuestions |-> <<>>,
   results |-> <<>>, correct |-> 0, resp |-> NoResp,
   \* history of the call, read only by the properties: whether it wrote
   \* to the collection, how often it scored, the attempt (_id, submitted)
   \* it met on arrival and whether another call on that attempt was then
   \* in flight
   wrote |-> FALSE, scored |-> 0, oid0 |-> Null, sub0 |-> FALSE,
   overlap |-> FALSE]

\* TestAttempt.findOne({ testId }).lean()
FindOne(tid) == IF tid \in DOMAIN db THEN <<db[tid]>> ELSE <<>>

\* .select(...) without userId leaves test.userId undefined.
Select(test, withUserId) ==
  IF withUserId THEN test ELSE [test EXCEPT !.userId = Undef]

Running(i) == i \in 1..Len(calls) /\ calls[i].pc # "done"

Finish(i, resp) == [calls EXCEPT ![i].pc = "done", ![i].resp = resp]

\* Faulty variant: a session token is stored for logged-in users too.
NewAttemptWithSession(oid, userId, sessionId, t, testQuestions) ==
  [_id |-> oid, userId |-> userId,
   sessionId |-> IF sessionId = Null THEN 0 ELSE sessionId,
   questions |-> [k \in 1..Len(testQuestions) |->
                    [questionId |-> testQuestions[k]._id,
                     question |-> testQuestions[k],
                     answer |-> Null, flagged |-> FALSE]],
   startedAt |-> t, submitted |-> FALSE, submittedAt |-> Null,
   score |-> Null, correct |-> Null, total |-> Null, results |-> <<>>,
   v |-> 0]

\* The document TestAttempt.create builds (schema defaults filled in).
NewAttempt(oid, userId, sessionId, t, testQuestions) ==
  [_id |-> oid, userId |-> userId, sessionId |-> sessionId,
   questions |-> [k \in 1..Len(testQuestions) |->
                    [questionId |-> testQuestions[k]._id,
                     question |-> testQuestions[k],
                     answer |-> Null, flagged |-> FALSE]],
   startedAt |-> t, submitted |-> FALSE, submittedAt |-> Null,
   score |-> Null, correct |-> Null, total |-> Null, results |-> <<>>,
   v |-> 0]

\* Faulty variant: Number(q.answer) without the null test, Number(null) = 0.
ScoreResultsNullIsZero(questions, qbank) ==
  [k \in DOMAIN questions |->
     LET q == questions[k]
         found == q.questionId \in DOMAIN qbank
                    /\ qbank[q.questionId].status # "deleted"
         userAnswer == IF q.answer # Null /\ q.answer # Undef
                       THEN ToNumber(q.answer) ELSE 0
         correctAnswer == IF found
                          THEN ToNumber(qbank[q.questionId].correctIndex)
                          ELSE Null
     IN [questionId |-> q.questionId,
         userAnswer |-> userAnswer,
         correctAnswer |-> correctAnswer,
         isCorrect |-> correctAnswer # Null /\ userAnswer = correctAnswer,
         flagged |-> q.flagged]]

\* results = test.questions.map(...) against the questions just fetched.
ScoreResults(questions, qbank) ==
  [k \in DOMAIN questions |->
     LET q == questions[k]
         found == q.questionId \in DOMAIN qbank
                    /\ qbank[q.questionId].status # "deleted"
         userAnswer == IF q.answer # Null /\ q.answer # Undef
                       THEN ToNumber(q.answer) ELSE Null
         correctAnswer == IF found
                          THEN ToNumber(qbank[q.questionId].correctIndex)
                          ELSE Null
     IN [questionId |-> q.questionId,
         userAnswer |-> userAnswer,
         correctAnswer |-> correctAnswer,
         isCorrect |-> userAnswer # Null /\ correctAnswer # Null
                         /\ userAnswer = correctAnswer,
         flagged |-> q.flagged]]

CountCorrect(results) ==
  Cardinality({k \in DOMAIN results : results[k].isCorrect})

\* Faulty variant: results left out of the $set.
SubmittedDocNoResults(doc, t, correct, len, results) ==
  [doc EXCEPT !.submitted = TRUE, !.submittedAt = t,
              !.score = ScoreOf(correct, len), !.correct = correct,
              !.total = len]

\* Faulty variant: total counts the questions found in the bank.
SubmittedDocTotalFound(doc, t, correct, len, results) ==
  LET found == Cardinality({k \in DOMAIN results :
                              results[k].correctAnswer # Null})
  IN [doc EXCEPT !.submitted = TRUE, !.submittedAt = t,
                 !.score = ScoreOf(correct, len), !.correct = correct,
                 !.total = found, !.results = results]

\* Faulty variant: the status is set first, the result fields are not part
\* of the same update.
SubmittedDocFlagOnly(doc, t, correct, len, results) ==
  [doc EXCEPT !.submitted = TRUE, !.submittedAt = t]

\* $set of the whole status-transition field set.
SubmittedDoc(doc, t, correct, len, results) ==
  [doc EXCEPT !.submitted = TRUE, !.submittedAt = t,
              !.score = ScoreOf(correct, len), !.correct = correct,
              !.total = len, !.results = results]

\* ------------------------------------------------------------------ Init
\* The question bank: two published questions, created in the order 1, 2.
InitBank ==
  [q \in Questions |-> [status |-> "published", correctIndex |-> (q - 1) % 2]]

\* What createTest loads from InitBank.
InitQuestions ==
  [k \in Questions |-> [_id |-> k, correctIndex |-> InitBank[k].correctIndex]]

\* An attempt as createTest leaves it, or that attempt submitted unanswered.
InitAttempt(owner, sessionId, phase) ==
  LET fresh == NewAttempt(1, owner, sessionId, 0, InitQuestions)
      results == ScoreResults(fresh.questions, InitBank)
  IN IF phase = "InProgress" THEN fresh
     ELSE SubmittedDoc(fresh, 0, CountCorrect(results), Len(fresh.questions),
                       results)

\* The server starts with one attempt in the collection and no request
\* in flight.
Init ==
  /\ bank = InitBank
  /\ cache = <<>>
  /\ isConnected = TRUE
  /\ fallbackCache = <<>>
  /\ calls = <<>>
  /\ now = 0
  /\ nextOid = 2
  /\ \E owner \in Creators, phase \in {"InProgress", "Submitted"} :
       LET sessionId == IF owner # Null THEN Null ELSE 1
           testId == TestIdOf(0, owner, sessionId)
       IN /\ db = [x \in {testId} |-> InitAttempt(owner, sessionId, phase)]
          /\ created = {testId}
          /\ nextSession = IF owner # Null THEN 1 ELSE 2

\* The server starts with an empty collection.
InitEmpty ==
  /\ db = <<>>
  /\ bank = InitBank
  /\ cache = <<>>
  /\ isConnected = TRUE
  /\ fallbackCache = <<>>
  /\ calls = <<>>
  /\ now = 0
  /\ nextOid = 1
  /\ nextSession = 1
  /\ created = {}

\* The server starts with two attempts in the collection, user 1's and an
\* anonymous visitor's, each InProgress or Submitted.
InitTwo ==
  /\ bank = InitBank
  /\ cache = <<>>
  /\ isConnected = TRUE
  /\ fallbackCache = <<>>
  /\ calls = <<>>
  /\ now = 0
  /\ nextOid = 3
  /\ nextSession = 2
  /\ created = {TestIdOf(0, 1, Null), TestIdOf(0, Null, 1)}
  /\ \E phase1, phase2 \in {"InProgress", "Submitted"} :
       db = [x \in created |->
               IF x = TestIdOf(0, 1, Null)
               THEN InitAttempt(1, Null, phase1)
               ELSE [InitAttempt(Null, 1, phase2) EXCEPT !._id = 2]]

\* A bank of MaxQuestions published questions, question q with correct
\* option q - 1.
ScoreBank ==
  [q \in 1..MaxQuestions |->
     [status |-> "published", correctIndex |-> (q - 1) % (MaxOption + 1)]]

\* User 1's InProgress attempt over the first len questions of ScoreBank,
\* every question unanswered or answered with one of the options.
InitScore ==
  /\ bank = ScoreBank
  /\ cache = <<>>
  /\ isConnected = TRUE
  /\ fallbackCache = <<>>
  /\ calls = <<>>
  /\ now = 0
  /\ nextOid = 2
  /\ nextSession = 1
  /\ created = {TestIdOf(0, 1, Null)}
  /\ \E len \in 1..MaxQuestions :
       \E answers \in [1..len -> {Null} \cup 0..MaxOption] :
         LET fresh == NewAttempt(1, 1, Null, 0,
                        [k \in 1..len |->
                           [_id |-> k,
                            correctIndex |-> ScoreBank[k].correctIndex]])
         IN db = [x \in {TestIdOf(0, 1, Null)} |->
                   [fresh EXCEPT !.questions =
                      [k \in 1..len |->
                         [fresh.questions[k] EXCEPT !.answer = answers[k]]]]]

\* ------------------------------------------------------- request arrival
FirstPc(op) ==
  CASE op = "create" -> "c_pool"
    [] op = "save"   -> "v_update"
    [] op = "submit" -> "s_read"
    [] op = "get"    -> "g_cache"
    [] op = "delete" -> "d_read"

\* A request arrives and its handler starts.
Begin(op, user, tid, q, answer, flagged) ==
  /\ LET c == NewCall(op, user, tid, q, answer, flagged, FirstPc(op))
         h == IF op # "create" /\ tid \in DOMAIN db
              THEN [c EXCEPT !.oid0 = db[tid]._id,
                             !.sub0 = db[tid].submitted,
                             !.overlap = \E j \in 1..Len(calls) :
                                           Running(j) /\ calls[j].tid = tid]
              ELSE c
     IN calls' = Append(calls, h)
  /\ UNCHANGED <<db, bank, cache, isConnected, fallbackCache, now,
                 nextOid, nextSession, created>>

BeginCreate ==
  /\ Len(calls) < MaxCalls
  /\ \E user \in Creators : Begin("create", user, <<>>, Null, Undef, Undef)

\* Bodies of the createTest requests: <<examId, questionPaperId, questions>>
\* with a paper that exists (1 with the questions, 2 without), a paper or
\* exam that does not (paper 3, exam 2), neither, and an explicit list of
\* question ids.
CreateBodies ==
  {<<Undef, 1, <<>>>>, <<Undef, 2, <<>>>>, <<Undef, 3, <<>>>>,
   <<2, Undef, <<>>>>, <<Undef, Undef, <<>>>>, <<Undef, 1, <<2, 1>>>>}

\* User 1's createTest request with any of the bodies.
BeginSelect ==
  /\ Len(calls) < MaxCalls
  /\ \E b \in CreateBodies :
       /\ calls' = Append(calls,
            [NewCall("create", 1, <<>>, Null, Undef, Undef, "c_pool")
               EXCEPT !.examId = b[1], !.questionPaperId = b[2],
                      !.questions = b[3]])
       /\ UNCHANGED <<db, bank, cache, isConnected, fallbackCache, now,
                      nextOid, nextSession, created>>

\* Bodies of the autosave requests: <<questionId, answer, flagged>>.
SaveRequests ==
  {<<1, 0, Undef>>, <<1, 1, Undef>>, <<2, 1, 1>>, <<2, Undef, 1>>,
   <<2, Null, 0>>}

BeginSave ==
  /\ Len(calls) < MaxCalls
  /\ \E user \in Callers, tid \in created, r \in SaveRequests :
       Begin("save", user, tid, r[1], r[2], r[3])

BeginOther ==
  /\ Len(calls) < MaxCalls
  /\ \E op \in {"submit", "get", "delete"}, user \in Callers,
        tid \in created :
       Begin(op, user, tid, Null, Undef, Undef)

NumCalls(op) == Cardinality({i \in 1..Len(calls) : calls[i].op = op})

\* No delete or create request is in flight.
ClientIdle == \A j \in 1..Len(calls) : Running(j) => calls[j].op = "submit"

\* User 1 submits once while deleting the attempt and starting it again,
\* one delete or create request at a time.
BeginRetry ==
  \/ /\ NumCalls("create") < MaxRestarts /\ ClientIdle
     /\ Begin("create", 1, <<>>, Null, Undef, Undef)
  \/ /\ NumCalls("delete") < MaxRestarts + 1 /\ ClientIdle
     /\ \E tid \in created : Begin("delete", 1, tid, Null, Undef, Undef)
  \/ /\ NumCalls("submit") < 1
     /\ \E tid \in created : Begin("submit", 1, tid, Null, Undef, Undef)

\* ---------------------------------------------------- optionalAuthenticate
\* Bearer tokens: signed for user 1, for user 2, for user 3 (whose account
\* is gone), signed for user 1 but expired, and not a token at all.
Tokens == {"user1", "user2", "user3", "expired", "garbage"}

\* Authorization headers as <<scheme, credentials>>; <<>> when there is
\* none.
AuthHeaders ==
  {<<>>, <<"Basic", "user1">>} \cup {<<"Bearer", token>> : token \in Tokens}

\* verifyToken(token): decoded.userId, or null when jwt.verify throws.
VerifyToken(token) ==
  CASE token = "user1" -> 1
    [] token = "user2" -> 2
    [] token = "user3" -> 3
    [] OTHER -> Null

\* A request with any Authorization header reaches the middleware.
BeginAuth ==
  /\ Len(calls) < MaxCalls
  /\ \E h \in AuthHeaders :
       calls' = Append(calls,
         [NewCall("auth", Undef, <<>>, Null, Undef, Undef, "a_verify")
            EXCEPT !.authHeader = h])
  /\ UNCHANGED <<db, bank, cache, isConnected, fallbackCache, now,
                 nextOid, nextSession, created>>

\* Faulty variant: a token that does not verify is answered 401, as the
\* mandatory middleware does.
AuthVerifyRejects(i) ==
  /\ Running(i) /\ calls[i].pc = "a_verify"
  /\ LET h == calls[i].authHeader
     IN calls' =
          IF h = <<>> \/ h[1] # "Bearer"
          THEN [calls EXCEPT ![i].user = Null, ![i].pc = "done"]
          ELSE IF VerifyToken(h[2]) = Null
               THEN Finish(i, Resp(401))
               ELSE [calls EXCEPT ![i].pc = "a_lookup"]
  /\ UNCHANGED <<db, bank, cache, isConnected, fallbackCache, now,
                 nextOid, nextSession, created>>

\* The header test and verifyToken; pc "done" is the call of next().
AuthVerify(i) ==
  /\ Running(i) /\ calls[i].pc = "a_verify"
  /\ LET h == calls[i].authHeader
     IN calls' =
          IF h = <<>> \/ h[1] # "Bearer"
          THEN [calls EXCEPT ![i].user = Null, ![i].pc = "done"]
          ELSE IF VerifyToken(h[2]) = Null
               THEN [calls EXCEPT ![i].user = Null, ![i].pc = "done"]
               ELSE [calls EXCEPT ![i].pc = "a_lookup"]
  /\ UNCHANGED <<db, bank, cache, isConnected, fallbackCache, now,
                 nextOid, nextSession, created>>

\* User.findById(decoded.userId): the user, null, or an error, which the
\* catch turns into req.user = null; then next().
AuthLookup(i) ==
  /\ Running(i) /\ calls[i].pc = "a_lookup"
  /\ \E throws \in BOOLEAN :
       LET userId == VerifyToken(calls[i].authHeader[2])
           user == IF ~throws /\ userId \in Users THEN userId ELSE Null
       IN calls' = [calls EXCEPT ![i].user = user, ![i].pc = "done"]
  /\ UNCHANGED <<db, bank, cache, isConnected, fallbackCache, now,
                 nextOid, nextSession, created>>

\* ------------------------------------------------------------ createTest
\* Faulty variant: the document the lookup returns is not tested.
LookupStatusUnchecked(examId, questionPaperId) ==
  IF questionPaperId # Undef \/ examId # Undef THEN 0 ELSE 400

\* QuestionPaper.findById(questionPaperId) or Exam.findById(examId): the
\* status createTest answers before it builds the pool, 0 when it goes on.
LookupStatus(examId, questionPaperId) ==
  IF questionPaperId # Undef
  THEN IF questionPaperId \in Papers THEN 0 ELSE 404
  ELSE IF examId # Undef
       THEN IF examId \in Exams THEN 0 ELSE 404
       ELSE 400

\* Question.find(questionQuery).select('_id') with questionQuery =
\* { status: 'published', questionPaper } or { status: 'published', exam }.
PublishedPool(examId, questionPaperId) ==
  {q \in Questions :
     /\ bank[q].status = "published"
     /\ IF questionPaperId # Undef THEN PaperOf(q) = questionPaperId
        ELSE ExamOf(q) = examId}

\* The paper or exam lookup, then questionIds: the ids of the request when
\* it lists some, the published pool otherwise.  The lookup reads the
\* content hierarchy only, which no route of this model writes, so it is
\* taken in one step with the pool query.
CreatePool(i) ==
  /\ Running(i) /\ calls[i].pc = "c_pool"
  /\ LET c == calls[i]
         status == LookupStatus(c.examId, c.questionPaperId)
         questionIds == IF Len(c.questions) # 0 THEN c.questions
                        ELSE SortedSeq(PublishedPool(c.examId,
                                                     c.questionPaperId))
     IN calls' = IF status # 0
                 THEN Finish(i, Resp(status))
                 ELSE IF Len(questionIds) = 0
                 THEN Finish(i, Resp(400))
                 ELSE [calls EXCEPT ![i].pc = "c_load",
                                    ![i].testQuestions = questionIds]
  /\ UNCHANGED <<db, bank, cache, isConnected, fallbackCache, now,
                 nextOid, nextSession, created>>

RECURSIVE KeepPublished(_)
\* The ids of a list whose question is published, in the order of the list.
KeepPublished(ids) ==
  IF ids = <<>> THEN <<>>
  ELSE IF bank[Head(ids)].status = "published"
       THEN <<Head(ids)>> \o KeepPublished(Tail(ids))
       ELSE KeepPublished(Tail(ids))

\* Faulty variant: without the sort the questions come in the order of
\* questionIds.
CreateLoadUnsorted(i) ==
  /\ Running(i) /\ calls[i].pc = "c_load"
  /\ LET order == KeepPublished(calls[i].testQuestions)
         docs == [k \in 1..Len(order) |->
                    [_id |-> order[k],
                     correctIndex |-> bank[order[k]].correctIndex]]
     IN calls' = IF order = <<>>
                 THEN Finish(i, Resp(400))
                 ELSE [calls EXCEPT ![i].pc = "c_insert",
                                    ![i].testQuestions = docs]
  /\ UNCHANGED <<db, bank, cache, isConnected, fallbackCache, now,
                 nextOid, nextSession, created>>

\* Question.find({ _id: { $in: questionIds }, status: 'published' })
\*   .sort({ createdAt: 1 }).lean()
CreateLoad(i) ==
  /\ Running(i) /\ calls[i].pc = "c_load"
  /\ LET ids == {calls[i].testQuestions[k] :
                   k \in 1..Len(calls[i].testQuestions)}
         pub == {q \in ids : bank[q].status = "published"}
         order == SortedSeq(pub)
         docs == [k \in 1..Len(order) |->
                    [_id |-> order[k],
                     correctIndex |-> bank[order[k]].correctIndex]]
     IN calls' = IF pub = {}
                 THEN Finish(i, Resp(400))
                 ELSE [calls EXCEPT ![i].pc = "c_insert",
                                    ![i].testQuestions = docs]
  /\ UNCHANGED <<db, bank, cache, isConnected, fallbackCache, now,
                 nextOid, nextSession, created>>

\* Faulty variant: an upsert on testId in place of create, which starts an
\* attempt that is already in the collection again.
CreateInsertUpsert(i) ==
  /\ Running(i) /\ calls[i].pc = "c_insert"
  /\ \E t \in {now, now + 1} :
       /\ t <= MaxClock
       /\ now' = t
       /\ LET userId == calls[i].user
              sessionId == IF userId # Null THEN Null ELSE nextSession
              testId == TestIdOf(t, userId, sessionId)
              oid == IF testId \in DOMAIN db THEN db[testId]._id
                     ELSE nextOid
          IN /\ nextSession' = IF userId # Null THEN nextSession
                               ELSE nextSession + 1
             /\ db' = [x \in DOMAIN db \cup {testId} |->
                        IF x = testId
                        THEN NewAttempt(oid, userId, sessionId, t,
                                        calls[i].testQuestions)
                        ELSE db[x]]
             /\ nextOid' = IF testId \in DOMAIN db THEN nextOid
                           ELSE nextOid + 1
             /\ created' = created \cup {testId}
             /\ calls' = [Finish(i,
                  [Resp(201) EXCEPT !.questions = calls[i].testQuestions])
                  EXCEPT ![i].tid = testId]
  /\ UNCHANGED <<bank, cache, isConnected, fallbackCache>>

\* testId generation and TestAttempt.create; testId has a unique index.
CreateInsert(i) ==
  /\ Running(i) /\ calls[i].pc = "c_insert"
  /\ \E t \in {now, now + 1} :
       /\ t <= MaxClock
       /\ now' = t
       /\ LET userId == calls[i].user
              sessionId == IF userId # Null THEN Null ELSE nextSession
              testId == TestIdOf(t, userId, sessionId)
          IN /\ nextSession' = IF userId # Null THEN nextSession
                               ELSE nextSession + 1
             /\ IF testId \in DOMAIN db
                THEN /\ calls' = Finish(i, Resp(500))
                     /\ UNCHANGED <<db, nextOid, created>>
                ELSE /\ db' = [x \in DOMAIN db \cup {testId} |->
                                IF x = testId
                                THEN NewAttempt(nextOid, userId, sessionId, t,
                                                calls[i].testQuestions)
                                ELSE db[x]]
                     /\ nextOid' = nextOid + 1
                     /\ created' = created \cup {testId}
                     /\ calls' = [Finish(i,
                          [Resp(201) EXCEPT
                             !.questions = calls[i].testQuestions])
                          EXCEPT ![i].tid = testId]
  /\ UNCHANGED <<bank, cache, isConnected, fallbackCache>>

\* ------------------------------------------------------------ saveAnswer
\* updateQuery: { testId, userId: req.user._id, submitted: false } or
\* { testId, userId: null, sessionId: { $exists: true }, submitted: false }
\* Faulty variant: the filter without submitted: false.
SaveMatchesAnyStatus(user, tid) ==
  /\ tid \in DOMAIN db
  /\ db[tid].userId = user

SaveMatches(user, tid) ==
  /\ tid \in DOMAIN db
  /\ db[tid].submitted = FALSE
  /\ db[tid].userId = user

\* { $set: { 'questions.$[elem].answer', 'questions.$[elem].flagged' } }
\* with arrayFilters [{ 'elem.questionId': questionId }]
\* Faulty variant: the whole array rewritten from the copy made at creation.
ApplySaveWholeArray(questions, questionId, answer, flagged) ==
  [k \in DOMAIN questions |->
     IF questions[k].questionId = questionId
     THEN [questions[k] EXCEPT
             !.answer = IF answer = Undef THEN @
                        ELSE IF answer # Null THEN ToNumber(answer) ELSE Null,
             !.flagged = IF flagged = Undef THEN @ ELSE flagged = 1]
     ELSE [questions[k] EXCEPT !.answer = Null, !.flagged = FALSE]]

\* Faulty variant: an answer already stored is kept.
ApplySaveFirstWins(questions, questionId, answer, flagged) ==
  [k \in DOMAIN questions |->
     IF questions[k].questionId = questionId
     THEN [questions[k] EXCEPT
             !.answer = IF answer = Undef \/ @ # Null THEN @
                        ELSE IF answer # Null THEN ToNumber(answer) ELSE Null,
             !.flagged = IF flagged = Undef THEN @ ELSE flagged = 1]
     ELSE questions[k]]

\* Faulty variant: both fields are always part of the $set.
ApplySaveBothFields(questions, questionId, answer, flagged) ==
  [k \in DOMAIN questions |->
     IF questions[k].questionId = questionId
     THEN [questions[k] EXCEPT
             !.answer = IF answer = Undef \/ answer = Null THEN Null
                        ELSE ToNumber(answer),
             !.flagged = flagged = 1]
     ELSE questions[k]]

ApplySave(questions, questionId, answer, flagged) ==
  [k \in DOMAIN questions |->
     IF questions[k].questionId = questionId
     THEN [questions[k] EXCEPT
             !.answer = IF answer = Undef THEN @
                        ELSE IF answer # Null THEN ToNumber(answer) ELSE Null,
             !.flagged = IF flagged = Undef THEN @ ELSE flagged = 1]
     ELSE questions[k]]

\* Faulty variant: unauthenticated callers are never refused.
NotAuthorizedAnonOpen(user, testUserId) ==
  user # Null /\ (Falsy(testUserId) \/ testUserId # user)

\* The identity check the handlers repeat after findOne.
NotAuthorized(user, testUserId) ==
  IF user # Null
  THEN Falsy(testUserId) \/ testUserId # user
  ELSE ~Falsy(testUserId)

\* TestAttempt.findOneAndUpdate(updateQuery, { $set: updateData }, ...):
\* one atomic document update; __v is not part of the update.
SaveUpdate(i) ==
  /\ Running(i) /\ calls[i].pc = "v_update"
  /\ LET c == calls[i]
     IN IF SaveMatches(c.user, c.tid)
        THEN /\ db' = [db EXCEPT ![c.tid].questions =
                         ApplySave(@, c.questionId, c.answer, c.flagged)]
             /\ calls' = [Finish(i, Resp(200)) EXCEPT ![i].wrote = TRUE]
        ELSE /\ calls' = [calls EXCEPT ![i].pc = "v_check"]
             /\ UNCHANGED db
  /\ UNCHANGED <<bank, cache, isConnected, fallbackCache, now,
                 nextOid, nextSession, created>>

\* if (!result): findOne({ testId }) to tell 404 / 403 / 400 / 409 apart.
SaveCheck(i) ==
  /\ Running(i) /\ calls[i].pc = "v_check"
  /\ LET c == calls[i]
         test == FindOne(c.tid)
     IN calls' =
          IF test = <<>> THEN Finish(i, Resp(404))
          ELSE IF NotAuthorized(c.user, test[1].userId)
               THEN Finish(i, Resp(403))
          ELSE IF test[1].submitted THEN Finish(i, Resp(400))
          ELSE Finish(i, Resp(409))
  /\ UNCHANGED <<db, bank, cache, isConnected, fallbackCache, now,
                 nextOid, nextSession, created>>

\* ------------------------------------------------------------ submitTest
StoredResult(code, doc, already) ==
  [Resp(code) EXCEPT !.score = doc.score, !.correct = doc.correct,
                     !.total = doc.total, !.results = doc.results,
                     !.alreadySubmitted = already]

\* Faulty variant: no short circuit.
AlreadySubmittedNever(test) == FALSE

\* if (test.submitted): the idempotent short circuit.
AlreadySubmitted(test) == test.submitted

\* findOne({ testId }) with __v, the identity check and the
\* already-submitted short circuit.
SubmitRead(i) ==
  /\ Running(i) /\ calls[i].pc = "s_read"
  /\ LET c == calls[i]
         test == FindOne(c.tid)
     IN calls' =
          IF test = <<>> THEN Finish(i, Resp(404))
          ELSE IF NotAuthorized(c.user, test[1].userId)
               THEN Finish(i, Resp(403))
          ELSE IF AlreadySubmitted(test[1])
               THEN Finish(i, StoredResult(200, test[1], TRUE))
          ELSE [calls EXCEPT ![i].pc = "s_score", ![i].test = test]
  /\ UNCHANGED <<db, bank, cache, isConnected, fallbackCache, now,
                 nextOid, nextSession, created>>

\* Question.find({ _id: { $in: questionIds } }) and the scoring loop.
SubmitScore(i) ==
  /\ Running(i) /\ calls[i].pc = "s_score"
  /\ LET results == ScoreResults(calls[i].test[1].questions, bank)
     IN calls' = [calls EXCEPT ![i].pc = "s_cas",
                               ![i].results = results,
                               ![i].correct = CountCorrect(results),
                               ![i].scored = @ + 1]
  /\ UNCHANGED <<db, bank, cache, isConnected, fallbackCache, now,
                 nextOid, nextSession, created>>

\* Faulty variant: the filter without submitted: false.
CasMatchesAnyStatus(tid, test) ==
  /\ tid \in DOMAIN db
  /\ db[tid]._id = test._id
  /\ db[tid].v = test.v

\* Faulty variant: the filter asks for the version after the one read,
\* which no document has.
CasMatchesNextVersion(tid, test) ==
  /\ tid \in DOMAIN db
  /\ db[tid]._id = test._id
  /\ db[tid].submitted = FALSE
  /\ db[tid].v = test.v + 1

\* Filter { _id: test._id, submitted: false, __v: test.__v }.
CasMatches(tid, test) ==
  /\ tid \in DOMAIN db
  /\ db[tid]._id = test._id
  /\ db[tid].submitted = FALSE
  /\ db[tid].v = test.v

\* Faulty variant: without new: true the old document is returned.
ReturnedDocOld(before, after) == before

\* Option { new: true }: findOneAndUpdate returns the updated document.
ReturnedDoc(before, after) == after

\* Faulty variant: a failed conditional write does not use up a retry.
RetriesLeftSame(retries) == retries

\* if (!updateResult) { retries--; ... }
RetriesLeft(retries) == retries - 1

\* Faulty variant: the filter without _id, so that the update lands on
\* the first in-progress attempt of that version in the collection.
SubmitCasAnyAttempt(i) ==
  /\ Running(i) /\ calls[i].pc = "s_cas"
  /\ LET c == calls[i]
         test == c.test[1]
         hits == {x \in DOMAIN db : ~db[x].submitted /\ db[x].v = test.v}
     IN IF hits # {}
        THEN LET first == CHOOSE x \in hits :
                            \A y \in hits : db[x]._id <= db[y]._id
             IN /\ db' = [db EXCEPT ![first] =
                            SubmittedDoc(@, now, c.correct,
                                         Len(test.questions), c.results)]
                /\ calls' = [Finish(i, StoredResult(200, db'[first], FALSE))
                               EXCEPT ![i].wrote = TRUE]
        ELSE /\ calls' = [calls EXCEPT
                            ![i].retries = RetriesLeft(c.retries),
                            ![i].pc = IF RetriesLeft(c.retries) > 0
                                      THEN "s_read" ELSE "s_reread"]
             /\ UNCHANGED db
  /\ UNCHANGED <<bank, cache, isConnected, fallbackCache, now,
                 nextOid, nextSession, created>>

\* The conditional findOneAndUpdate, the retry bookkeeping and the
\* success response.
SubmitCas(i) ==
  /\ Running(i) /\ calls[i].pc = "s_cas"
  /\ LET c == calls[i]
         test == c.test[1]
     IN IF CasMatches(c.tid, test)
        THEN /\ db' = [db EXCEPT ![c.tid] =
                         SubmittedDoc(@, now, c.correct,
                                      Len(test.questions), c.results)]
             /\ calls' = [Finish(i, StoredResult(200,
                               ReturnedDoc(db[c.tid], db'[c.tid]), FALSE))
                            EXCEPT ![i].wrote = TRUE]
        ELSE /\ calls' = [calls EXCEPT
                            ![i].retries = RetriesLeft(c.retries),
                            ![i].pc = IF RetriesLeft(c.retries) > 0
                                      THEN "s_read" ELSE "s_reread"]
             /\ UNCHANGED db
  /\ UNCHANGED <<bank, cache, isConnected, fallbackCache, now,
                 nextOid, nextSession, created>>

\* Retries exhausted: findOne({ testId }) once more, else throw (500).
SubmitReread(i) ==
  /\ Running(i) /\ calls[i].pc = "s_reread"
  /\ LET updatedTest == FindOne(calls[i].tid)
     IN calls' =
          IF updatedTest # <<>> /\ updatedTest[1].submitted
          THEN Finish(i, StoredResult(200, updatedTest[1], TRUE))
          ELSE Finish(i, Resp(500))
  /\ UNCHANGED <<db, bank, cache, isConnected, fallbackCache, now,
                 nextOid, nextSession, created>>

\* ---------------------------------------------------------- cacheService
\* Map.set / SETEX on one of the two stores.
CachePut(store, key, value) ==
  [x \in DOMAIN store \cup {key} |-> IF x = key THEN value ELSE store[x]]

\* Faulty variant: an entry counts as expired from its expiry time on.
MemExpiredAtExpiry(item, t) == t >= item.expiresAt

\* if (Date.now() > item.expiresAt)
MemExpired(item, t) == t > item.expiresAt

\* CacheService.get(key) at time t: the value, <<>> for null.
MemGet(store, key, t) ==
  IF key \notin DOMAIN store THEN <<>>
  ELSE IF MemExpired(store[key], t) THEN <<>>
  ELSE <<store[key].value>>

\* The Map after CacheService.get(key) at time t: an expired entry is
\* deleted.
MemAfterGet(store, key, t) ==
  IF key \in DOMAIN store /\ MemExpired(store[key], t)
  THEN [x \in DOMAIN store \ {key} |-> store[x]]
  ELSE store

\* The Map after CacheService.set(key, value, ttl) at time t.
MemSet(store, key, value, ttl, t) ==
  CachePut(store, key, [value |-> value, expiresAt |-> t + ttl])

\* --------------------------------------------------------- getTestResult
\* RedisCacheService.get(key): the Redis entry while the client is ready;
\* the entry of the in-memory fallback when it is not, or when the Redis
\* command throws.  <<>> stands for null.
CacheGet(key) ==
  IF isConnected
  THEN IF key \in DOMAIN cache THEN <<cache[key]>> ELSE <<>>
  ELSE MemGet(fallbackCache, key, now)

\* cacheService.get(`testResult:${testId}`), answered before any lookup.
GetCache(i) ==
  /\ Running(i) /\ calls[i].pc = "g_cache"
  /\ LET cached == CacheGet(calls[i].tid)
     IN calls' = IF cached # <<>>
                 THEN Finish(i, cached[1])
                 ELSE [calls EXCEPT ![i].pc = "g_read"]
  /\ fallbackCache' = IF isConnected THEN fallbackCache
                      ELSE MemAfterGet(fallbackCache, calls[i].tid, now)
  /\ UNCHANGED <<db, bank, cache, isConnected, now, nextOid, nextSession,
                 created>>

\* The response built for a submitted test.
ResultView(test) ==
  [Resp(200) EXCEPT !.score = test.score, !.correct = test.correct,
                    !.total = test.total, !.results = test.results,
                    !.submitted = TRUE]

\* The response built for an in-progress test.
ProgressView(test) ==
  [Resp(200) EXCEPT
     !.questions = [k \in DOMAIN test.questions |-> test.questions[k].question]]

\* Faulty variant: no early return for an in-progress test.
GetReadCachesAll(i) ==
  /\ Running(i) /\ calls[i].pc = "g_read"
  /\ LET c == calls[i]
         found == FindOne(c.tid)
     IN calls' =
          IF found = <<>> THEN Finish(i, Resp(404))
          ELSE LET test == Select(found[1], FALSE)
               IN IF NotAuthorized(c.user, test.userId)
                  THEN Finish(i, Resp(403))
                  ELSE [calls EXCEPT ![i].pc = "g_set",
                                     ![i].test = <<test>>]
  /\ UNCHANGED <<db, bank, cache, isConnected, fallbackCache, now,
                 nextOid, nextSession, created>>

\* findOne({ testId }).select(... without userId ...), the identity check
\* and the in-progress response.
GetRead(i) ==
  /\ Running(i) /\ calls[i].pc = "g_read"
  /\ LET c == calls[i]
         found == FindOne(c.tid)
     IN calls' =
          IF found = <<>> THEN Finish(i, Resp(404))
          ELSE LET test == Select(found[1], FALSE)
               IN IF NotAuthorized(c.user, test.userId)
                  THEN Finish(i, Resp(403))
                  ELSE IF ~test.submitted
                       THEN Finish(i, ProgressView(test))
                       ELSE [calls EXCEPT ![i].pc = "g_set",
                                          ![i].test = <<test>>]
  /\ UNCHANGED <<db, bank, cache, isConnected, fallbackCache, now,
                 nextOid, nextSession, created>>

\* cacheService.set(cacheKey, response, 1 hour) and the response: the
\* entry goes to Redis while the client is ready and to the in-memory
\* fallback otherwise.
GetSet(i) ==
  /\ Running(i) /\ calls[i].pc = "g_set"
  /\ LET c == calls[i]
         response == ResultView(c.test[1])
     IN /\ IF isConnected
           THEN /\ cache' = CachePut(cache, c.tid, response)
                /\ UNCHANGED fallbackCache
           ELSE /\ fallbackCache' = MemSet(fallbackCache, c.tid, response,
                                          ResultTtl, now)
                /\ UNCHANGED cache
        /\ calls' = Finish(i, response)
  /\ UNCHANGED <<db, bank, isConnected, now, nextOid, nextSession, created>>

\* The client's 'error', 'reconnecting' and 'end' events: Redis is lost.
\* A command that throws while the flag is still set takes the same
\* fallback branch as a command issued after the event.
RedisError ==
  /\ isConnected
  /\ isConnected' = FALSE
  /\ UNCHANGED <<db, bank, cache, fallbackCache, calls, now, nextOid,
                 nextSession, created>>

\* The client's 'ready' event: Redis is back, with the entries it had.
RedisReady ==
  /\ ~isConnected
  /\ isConnected' = TRUE
  /\ UNCHANGED <<db, bank, cache, fallbackCache, calls, now, nextOid,
                 nextSession, created>>

\* ------------------------------------------------------------ deleteTest
\* Faulty variant: the attempt is looked up but the caller is not checked.
DeleteReadUnchecked(i) ==
  /\ Running(i) /\ calls[i].pc = "d_read"
  /\ calls' = IF FindOne(calls[i].tid) = <<>> THEN Finish(i, Resp(404))
              ELSE [calls EXCEPT ![i].pc = "d_delete"]
  /\ UNCHANGED <<db, bank, cache, isConnected, fallbackCache, now,
                 nextOid, nextSession, created>>

\* findOne({ testId }).select('testId userId sessionId') and the check.
DeleteRead(i) ==
  /\ Running(i) /\ calls[i].pc = "d_read"
  /\ LET c == calls[i]
         test == FindOne(c.tid)
     IN calls' =
          IF test = <<>> THEN Finish(i, Resp(404))
          ELSE IF NotAuthorized(c.user, test[1].userId)
               THEN Finish(i, Resp(403))
          ELSE [calls EXCEPT ![i].pc = "d_delete"]
  /\ UNCHANGED <<db, bank, cache, isConnected, fallbackCache, now,
                 nextOid, nextSession, created>>

\* TestAttempt.deleteOne({ testId })
DeleteOne(i) ==
  /\ Running(i) /\ calls[i].pc = "d_delete"
  /\ db' = [x \in DOMAIN db \ {calls[i].tid} |-> db[x]]
  /\ calls' = [Finish(i, Resp(200)) EXCEPT
                 ![i].wrote = calls[i].tid \in DOMAIN db]
  /\ UNCHANGED <<bank, cache, isConnected, fallbackCache, now,
                 nextOid, nextSession, created>>

\* ---------------------------------------------------------- question bank
\* updateQuestion: Question.findByIdAndUpdate(req.params.id, updateData)
\* with correctIndex and status taken from the body when they are there.
UpdateQuestion(id, correctIndex, status) ==
  /\ bank[id].status # "deleted"
  /\ bank' = [bank EXCEPT
                ![id].correctIndex = IF correctIndex = Undef THEN @
                                     ELSE correctIndex,
                ![id].status = IF status = "undefined" THEN @ ELSE status]
  /\ UNCHANGED <<db, cache, isConnected, fallbackCache, calls, now,
                 nextOid, nextSession, created>>

\* deleteQuestion: Question.findByIdAndDelete(req.params.id)
DeleteQuestion(id) ==
  /\ bank[id].status # "deleted"
  /\ bank' = [bank EXCEPT ![id] = [status |-> "deleted",
                                   correctIndex |-> Null]]
  /\ UNCHANGED <<db, cache, isConnected, fallbackCache, calls, now,
                 nextOid, nextSession, created>>

\* Bodies of the owner's autosave requests while the bank is edited.
OwnerSaves == {<<1, 0, Undef>>, <<2, 1, 1>>}

\* Bodies of the editors' update requests: <<correctIndex, status>>.
QuestionUpdates ==
  {<<0, "undefined">>, <<1, "undefined">>, <<Undef, "draft">>,
   <<Undef, "published">>}

\* The owner of an attempt autosaves and submits.
BeginOwner ==
  /\ Len(calls) < MaxCalls
  /\ \E tid \in created :
       \/ \E r \in OwnerSaves :
            Begin("save", db[tid].userId, tid, r[1], r[2], r[3])
       \/ Begin("submit", db[tid].userId, tid, Null, Undef, Undef)

\* The answer and submit routes called by the owner while editors change
\* the question bank.
NextBank ==
  \/ BeginOwner
  \/ \E id \in Questions, u \in QuestionUpdates :
       UpdateQuestion(id, u[1], u[2])
  \/ \E id \in Questions : DeleteQuestion(id)
  \/ \E i \in 1..MaxCalls : SaveUpdate(i)
  \/ \E i \in 1..MaxCalls : SaveCheck(i)
  \/ \E i \in 1..MaxCalls : SubmitRead(i)
  \/ \E i \in 1..MaxCalls : SubmitScore(i)
  \/ \E i \in 1..MaxCalls : SubmitCas(i)

\* The owner submits once.
BeginScore ==
  /\ NumCalls("submit") < 1
  /\ \E tid \in created :
       Begin("submit", db[tid].userId, tid, Null, Undef, Undef)

\* One submitTest call on an answered attempt.
NextScore ==
  \/ BeginScore
  \/ \E i \in 1..MaxCalls : SubmitRead(i)
  \/ \E i \in 1..MaxCalls : SubmitScore(i)
  \/ \E i \in 1..MaxCalls : SubmitCas(i)

LifeCalls == MaxCalls + 1

\* The caller that started an attempt autosaves, submits, asks for the
\* result and deletes.
BeginLife ==
  /\ Len(calls) < LifeCalls
  /\ \E tid \in DOMAIN db :
       \/ \E r \in OwnerSaves :
            Begin("save", db[tid].userId, tid, r[1], r[2], r[3])
       \/ \E op \in {"submit", "get", "delete"} :
            Begin(op, db[tid].userId, tid, Null, Undef, Undef)

\* All five routes, from an empty collection, every attempt used by the
\* caller that started it.
NextLife ==
  \/ BeginCreate
  \/ BeginLife
  \/ \E i \in 1..LifeCalls : CreatePool(i)
  \/ \E i \in 1..LifeCalls : CreateLoad(i)
  \/ \E i \in 1..LifeCalls : CreateInsert(i)
  \/ \E i \in 1..LifeCalls : SaveUpdate(i)
  \/ \E i \in 1..LifeCalls : SaveCheck(i)
  \/ \E i \in 1..LifeCalls : SubmitRead(i)
  \/ \E i \in 1..LifeCalls : SubmitScore(i)
  \/ \E i \in 1..LifeCalls : SubmitCas(i)
  \/ \E i \in 1..LifeCalls : GetCache(i)
  \/ \E i \in 1..LifeCalls : GetRead(i)
  \/ \E i \in 1..LifeCalls : GetSet(i)
  \/ \E i \in 1..LifeCalls : DeleteRead(i)
  \/ \E i \in 1..LifeCalls : DeleteOne(i)

\* The create route with every kind of request body, while editors
\* publish and unpublish questions.
NextSelect ==
  \/ BeginSelect
  \/ \E id \in Questions, status \in {"draft", "published"} :
       UpdateQuestion(id, Undef, status)
  \/ \E i \in 1..MaxCalls : CreatePool(i)
  \/ \E i \in 1..MaxCalls : CreateLoad(i)
  \/ \E i \in 1..MaxCalls : CreateInsert(i)

\* Any caller submits any of the attempts.
BeginSubmit ==
  /\ Len(calls) < MaxCalls
  /\ \E user \in Callers, tid \in created :
       Begin("submit", user, tid, Null, Undef, Undef)

\* The submit route on a collection of two attempts, while editors change
\* the answer key.
NextSubmit ==
  \/ BeginSubmit
  \/ \E id \in Questions, correctIndex \in {0, 1} :
       UpdateQuestion(id, correctIndex, "undefined")
  \/ \E i \in 1..MaxCalls : SubmitRead(i)
  \/ \E i \in 1..MaxCalls : SubmitScore(i)
  \/ \E i \in 1..MaxCalls : SubmitCas(i)

\* The owner autosaves and any caller submits.
BeginAnswer ==
  /\ Len(calls) < MaxCalls
  /\ \E tid \in created :
       \/ \E r \in OwnerSaves :
            Begin("save", db[tid].userId, tid, r[1], r[2], r[3])
       \/ \E user \in Callers :
            Begin("submit", user, tid, Null, Undef, Undef)

\* The next await of an answer or submit call returns and the handler runs
\* on to its next await or to its response.
HandlerStep(i) ==
  \/ SaveUpdate(i)
  \/ SaveCheck(i)
  \/ SubmitRead(i)
  \/ SubmitScore(i)
  \/ SubmitCas(i)

\* The answer and submit routes on an attempt that nobody deletes.
NextAnswer ==
  \/ BeginAnswer
  \/ \E i \in 1..MaxCalls : HandlerStep(i)

\* Bodies of autosave requests for question 1 of the attempt and for
\* question 3, which no attempt holds.
StraySaves == {<<1, 1, Undef>>, <<3, 1, Undef>>, <<3, Undef, 1>>}

BeginStray ==
  /\ Len(calls) < MaxCalls
  /\ \E user \in Callers, tid \in created, r \in StraySaves :
       Begin("save", user, tid, r[1], r[2], r[3])

\* The answer route, also with question ids the attempt does not hold.
NextStray ==
  \/ BeginStray
  \/ \E i \in 1..MaxCalls : SaveUpdate(i)
  \/ \E i \in 1..MaxCalls : SaveCheck(i)

\* The middleware in front of the test routes.
NextAuth ==
  \/ BeginAuth
  \/ \E i \in 1..MaxCalls : AuthVerify(i)
  \/ \E i \in 1..MaxCalls : AuthLookup(i)

NextCreate ==
  \/ BeginCreate
  \/ \E i \in 1..MaxCalls : CreatePool(i)
  \/ \E i \in 1..MaxCalls : CreateLoad(i)
  \/ \E i \in 1..MaxCalls : CreateInsert(i)

\* The answer, submit, result and delete routes.  SubmitReread is not among
\* the steps: a call gets there only after three failed conditional writes,
\* each following a read that found the attempt InProgress, which takes
\* the attempt being deleted and started again under the same testId
\* (NextRetry).
Next ==
  \/ BeginSave
  \/ BeginOther
  \/ \E i \in 1..MaxCalls : SaveUpdate(i)
  \/ \E i \in 1..MaxCalls : SaveCheck(i)
  \/ \E i \in 1..MaxCalls : SubmitRead(i)
  \/ \E i \in 1..MaxCalls : SubmitScore(i)
  \/ \E i \in 1..MaxCalls : SubmitCas(i)
  \/ \E i \in 1..MaxCalls : GetCache(i)
  \/ \E i \in 1..MaxCalls : GetRead(i)
  \/ \E i \in 1..MaxCalls : GetSet(i)
  \/ \E i \in 1..MaxCalls : DeleteRead(i)
  \/ \E i \in 1..MaxCalls : DeleteOne(i)

RetryCalls == 2 * MaxRestarts + 2

\* The create, submit and delete routes called by user 1.
NextRetry ==
  \/ BeginRetry
  \/ \E i \in 1..RetryCalls : CreatePool(i)
  \/ \E i \in 1..RetryCalls : CreateLoad(i)
  \/ \E i \in 1..RetryCalls : CreateInsert(i)
  \/ \E i \in 1..RetryCalls : SubmitRead(i)
  \/ \E i \in 1..RetryCalls : SubmitScore(i)
  \/ \E i \in 1..RetryCalls : SubmitCas(i)
  \/ \E i \in 1..RetryCalls : SubmitReread(i)
  \/ \E i \in 1..RetryCalls : DeleteRead(i)
  \/ \E i \in 1..RetryCalls : DeleteOne(i)

\* User 1's InProgress attempt is in the collection.
InitRetry ==
  /\ Init
  /\ \A tid \in DOMAIN db : db[tid].userId = 1 /\ ~db[tid].submitted

\* The submit, result and delete routes while the Redis connection comes
\* and goes.
NextCache ==
  \/ BeginOther
  \/ RedisError
  \/ RedisReady
  \/ \E i \in 1..MaxCalls : SubmitRead(i)
  \/ \E i \in 1..MaxCalls : SubmitScore(i)
  \/ \E i \in 1..MaxCalls : SubmitCas(i)
  \/ \E i \in 1..MaxCalls : GetCache(i)
  \/ \E i \in 1..MaxCalls : GetRead(i)
  \/ \E i \in 1..MaxCalls : GetSet(i)
  \/ \E i \in 1..MaxCalls : DeleteRead(i)
  \/ \E i \in 1..MaxCalls : DeleteOne(i)

Spec == Init /\ [][Next]_vars

SpecCreate == InitEmpty /\ [][NextCreate]_vars

SpecRetry == InitRetry /\ [][NextRetry]_vars

\* An InProgress attempt, of user 1 or anonymous, is in the collection.
InitInProgress ==
  /\ Init
  /\ \A tid \in DOMAIN db : ~db[tid].submitted

SpecBank == InitInProgress /\ [][NextBank]_vars

SpecScore == InitScore /\ [][NextScore]_vars

SpecLife == InitEmpty /\ [][NextLife]_vars

SpecCache == Init /\ [][NextCache]_vars

SpecSelect == InitEmpty /\ [][NextSelect]_vars

SpecSubmit == InitTwo /\ [][NextSubmit]_vars

SpecStray == Init /\ [][NextStray]_vars

SpecAuth == InitEmpty /\ [][NextAuth]_vars

\* The event loop runs every handler whose await has returned: no call
\* that can take a step waits forever.
SpecFair ==
  /\ InitInProgress
  /\ [][NextAnswer]_vars
  /\ \A i \in 1..MaxCalls : WF_vars(HandlerStep(i))

\* ============================================================ properties
Done(i) == calls[i].pc = "done"

CallIds == 1..Len(calls)

\* The ownership rule of an attempt: an owned attempt admits exactly its
\* owner, an anonymous attempt admits exactly the unauthenticated callers.
PassesOwnership(user, doc) ==
  IF doc.userId # Null THEN user = doc.userId ELSE user = Null

ResultFields(r) == <<r.score, r.correct, r.total, r.results>>

\* The attempt the call met on arrival is still in the collection.
SameAttempt(i) ==
  /\ calls[i].tid \in DOMAIN db
  /\ db[calls[i].tid]._id = calls[i].oid0

\* Submit calls whose conditional write performed the transition of tid.
Writers(tid) ==
  {i \in CallIds : calls[i].op = "submit" /\ calls[i].tid = tid
                     /\ calls[i].wrote}

\* ---------------------------------------------------------------- C1
\* C1: for every attempt, at most one Submit call's conditional write
\* performs the InProgress -> Submitted transition (sets submitted and
\* writes score/correct/total/results).
C1_AtMostOneTransition ==
  \A tid \in created : Cardinality(Writers(tid)) <= 1

\* Two Submit calls raced on one attempt: both scored, one wrote, the other
\* lost the conditional write and has finished.
C1_Witness ==
  \E i, j \in CallIds :
    /\ i # j
    /\ calls[i].op = "submit" /\ calls[j].op = "submit"
    /\ calls[i].tid = calls[j].tid
    /\ calls[i].wrote /\ calls[i].scored = 1
    /\ ~calls[j].wrote /\ calls[j].scored = 1 /\ Done(j)

\* ---------------------------------------------------------------- C2
\* C2: Submit calls that arrived while the attempt was InProgress and
\* returned success all report the same score, correct, total and results,
\* and these are the ones persisted on the (undeleted) attempt.
C2_SameResultForAll ==
  \A i \in CallIds :
    (calls[i].op = "submit" /\ ~calls[i].sub0 /\ Done(i)
       /\ calls[i].resp.status = 200)
    => /\ \A j \in CallIds :
            (calls[j].op = "submit" /\ ~calls[j].sub0 /\ Done(j)
               /\ calls[j].resp.status = 200 /\ calls[j].tid = calls[i].tid)
            => ResultFields(calls[j].resp) = ResultFields(calls[i].resp)
       /\ SameAttempt(i)
            => /\ db[calls[i].tid].submitted
               /\ ResultFields(calls[i].resp) = ResultFields(db[calls[i].tid])

\* Two overlapping Submit calls on an InProgress attempt both answered 200,
\* one as the winner and one with alreadySubmitted.
C2_Witness ==
  \E i, j \in CallIds :
    /\ i < j
    /\ calls[i].op = "submit" /\ calls[j].op = "submit"
    /\ calls[i].tid = calls[j].tid
    /\ ~calls[i].sub0 /\ ~calls[j].sub0 /\ calls[j].overlap
    /\ Done(i) /\ Done(j)
    /\ calls[i].resp.status = 200 /\ calls[j].resp.status = 200
    /\ calls[i].resp.alreadySubmitted # calls[j].resp.alreadySubmitted
    /\ calls[i].resp.total = 2

\* ---------------------------------------------------------------- C3
\* C3: a Submit call that arrives on an already Submitted attempt never
\* writes and never scores; when it succeeds it answers alreadySubmitted =
\* true and reports the stored result, which is the result the winning
\* Submit returned.
C3_IdempotentSubmit ==
  \A i \in CallIds :
    (calls[i].op = "submit" /\ calls[i].sub0)
    => /\ ~calls[i].wrote
       /\ calls[i].scored = 0
       /\ (Done(i) /\ calls[i].resp.status = 200)
            => /\ calls[i].resp.alreadySubmitted
               /\ SameAttempt(i)
                    => ResultFields(calls[i].resp)
                         = ResultFields(db[calls[i].tid])
               /\ \A w \in Writers(calls[i].tid) :
                    ResultFields(calls[i].resp) = ResultFields(calls[w].resp)

\* A second Submit arrived after the first had won and got the first
\* one's result back.
C3_Witness ==
  \E i, w \in CallIds :
    /\ calls[i].op = "submit" /\ calls[i].sub0 /\ Done(i)
    /\ calls[i].resp.status = 200 /\ calls[i].resp.alreadySubmitted
    /\ w \in Writers(calls[i].tid)
    /\ calls[i].resp.score = calls[w].resp.score
    /\ calls[i].resp.score = 0

\* ---------------------------------------------------------------- C4
\* C4 (as claimed): the scoring step runs in at most one of the Submit
\* calls on an attempt.
C4_ScoredInOneCall ==
  \A tid \in created :
    Cardinality({i \in CallIds : calls[i].op = "submit" /\ calls[i].tid = tid
                                   /\ calls[i].scored > 0}) <= 1

\* C4 (amended): several Submit calls may run the scoring step, each at
\* most once per read, but exactly one computation is persisted: when a
\* Submit that arrived on the InProgress attempt has succeeded, exactly one
\* call has written and the stored correct count, score and results are the
\* ones that call computed.
C4_OneScoringPersisted ==
  \A i \in CallIds :
    (calls[i].op = "submit" /\ ~calls[i].sub0 /\ Done(i)
       /\ calls[i].resp.status = 200)
    => /\ calls[i].scored <= MaxRetries
       /\ Cardinality(Writers(calls[i].tid)) = 1
       /\ \A w \in Writers(calls[i].tid) :
            /\ calls[w].scored >= 1
            /\ SameAttempt(i)
                 => /\ db[calls[i].tid].results = calls[w].results
                    /\ db[calls[i].tid].correct = calls[w].correct
                    /\ db[calls[i].tid].score =
                         ScoreOf(calls[w].correct, Len(calls[w].results))

\* Both racing Submit calls scored; the loser's computation was dropped.
C4_Witness ==
  \E i, w \in CallIds :
    /\ calls[i].op = "submit" /\ ~calls[i].sub0 /\ Done(i)
    /\ calls[i].resp.status = 200 /\ ~calls[i].wrote /\ calls[i].scored = 1
    /\ w \in Writers(calls[i].tid)
    /\ SameAttempt(i)
    /\ db[calls[i].tid].results = calls[w].results

\* ---------------------------------------------------------------- C5
FrozenFields(doc) ==
  <<doc.submitted, doc.questions, doc.score, doc.correct, doc.total,
    doc.results>>

\* C5: once an attempt is Submitted, no step of any handler changes its
\* questions (answers, flags), score, correct, total or results.
C5_SubmittedIsFrozen ==
  [][\A tid \in DOMAIN db :
       (db[tid].submitted /\ tid \in DOMAIN db')
       => FrozenFields(db'[tid]) = FrozenFields(db[tid])]_vars

\* An owner's SaveAnswer that arrived while the attempt was InProgress
\* reached the collection after the submission and was refused.
C5_Witness ==
  \E i \in CallIds :
    /\ calls[i].op = "save" /\ ~calls[i].sub0 /\ Done(i)
    /\ calls[i].resp.status = 400
    /\ SameAttempt(i)
    /\ db[calls[i].tid].submitted
    /\ Writers(calls[i].tid) # {}

\* ---------------------------------------------------------------- C6
\* Another SaveAnswer on the same question of the same attempt has been
\* applied.
OtherSaveOnQuestion(i) ==
  \E j \in CallIds :
    /\ j # i
    /\ calls[j].op = "save" /\ calls[j].tid = calls[i].tid
    /\ calls[j].questionId = calls[i].questionId
    /\ calls[j].wrote

\* C6: SaveAnswer calls by the owner on distinct questions of an attempt
\* that is (still) InProgress are all acknowledged, and each question holds
\* what its call wrote.
C6_NoLostUpdate ==
  \A i \in CallIds :
    (calls[i].op = "save" /\ Done(i) /\ SameAttempt(i)
       /\ ~db[calls[i].tid].submitted
       /\ PassesOwnership(calls[i].user, db[calls[i].tid])
       /\ ~OtherSaveOnQuestion(i))
    => /\ calls[i].resp.status = 200
       /\ \A k \in DOMAIN db[calls[i].tid].questions :
            LET q == db[calls[i].tid].questions[k]
            IN q.questionId = calls[i].questionId
               => /\ calls[i].answer # Undef => q.answer = calls[i].answer
                  /\ calls[i].flagged # Undef
                       => q.flagged = (calls[i].flagged = 1)

\* Two overlapping SaveAnswer calls on questions 1 and 2 were both
\* acknowledged and both answers are stored.
C6_Witness ==
  \E i, j \in CallIds :
    /\ i < j
    /\ calls[i].op = "save" /\ calls[j].op = "save"
    /\ calls[i].tid = calls[j].tid /\ calls[j].overlap
    /\ calls[i].questionId = 1 /\ calls[j].questionId = 2
    /\ calls[i].resp.status = 200 /\ calls[j].resp.status = 200
    /\ SameAttempt(i)
    /\ db[calls[i].tid].questions[1].answer = calls[i].answer
    /\ db[calls[i].tid].questions[2].answer = calls[j].answer
    /\ calls[i].answer = 0 /\ calls[j].answer = 1

\* ---------------------------------------------------------------- C7
\* C7: on a Submitted attempt every results entry's userAnswer is the
\* answer stored in questions, so no acknowledged SaveAnswer is missing
\* from the results.
C7_ResultsReflectAnswers ==
  \A tid \in DOMAIN db :
    db[tid].submitted
    => \A k \in DOMAIN db[tid].questions :
         db[tid].results[k].userAnswer = db[tid].questions[k].answer

\* ---------------------------------------------------------------- C8
\* C8: every accepted mutation of an attempt (SaveAnswer, SetFlag, the
\* Submit transition) strictly increases its version counter __v.
C8_VersionIncreases ==
  [][\A tid \in DOMAIN db :
       (tid \in DOMAIN db' /\ db'[tid] # db[tid])
       => db'[tid].v > db[tid].v]_vars

\* ---------------------------------------------------------------- C9
\* C9: a GetResult call by a caller who fails the ownership check of an
\* existing attempt is answered Forbidden.
C9_GetResultForbidden ==
  \A i \in CallIds :
    (calls[i].op = "get" /\ Done(i) /\ SameAttempt(i)
       /\ ~PassesOwnership(calls[i].user, db[calls[i].tid]))
    => calls[i].resp.status = 403

\* ---------------------------------------------------------------- C10
\* C10: every step of a SaveAnswer, Submit or DeleteAttempt call whose
\* caller fails the ownership check of the attempt leaves the collection
\* unchanged, never enters a writing stage, and answers Forbidden when it
\* answers.
C10_ForbiddenNoEffect ==
  [][\A i \in CallIds :
       (/\ calls[i].op \in {"save", "submit", "delete"}
        /\ calls'[i] # calls[i]
        /\ calls[i].tid \in DOMAIN db
        /\ ~PassesOwnership(calls[i].user, db[calls[i].tid]))
       => /\ db' = db
          /\ calls'[i].pc \in {"done", "v_check"}
          /\ calls'[i].pc = "done" => calls'[i].resp.status = 403]_vars

\* A SaveAnswer and a DeleteAttempt by callers who fail the check were both
\* answered Forbidden and the attempt is as it was created.
C10_Witness ==
  \E i, j \in CallIds :
    /\ calls[i].op = "save" /\ calls[j].op = "delete"
    /\ calls[i].tid = calls[j].tid
    /\ SameAttempt(i)
    /\ ~PassesOwnership(calls[i].user, db[calls[i].tid])
    /\ ~PassesOwnership(calls[j].user, db[calls[j].tid])
    /\ calls[i].user # calls[j].user
    /\ calls[i].resp.status = 403 /\ calls[j].resp.status = 403
    /\ db[calls[i].tid] = InitAttempt(db[calls[i].tid].userId,
                                      db[calls[i].tid].sessionId,
                                      "InProgress")

\* ---------------------------------------------------------------- C11
\* C11: for every successful createTest call (201), no question of the
\* returned question list carries the field correctIndex.
C11_NoCorrectIndexReturned ==
  \A i \in CallIds :
    (calls[i].op = "create" /\ Done(i) /\ calls[i].resp.status = 201)
    => \A k \in DOMAIN calls[i].resp.questions :
         "correctIndex" \notin DOMAIN calls[i].resp.questions[k]

\* ---------------------------------------------------------------- C12
\* C12: the view getTestResult returns for an attempt that is not
\* submitted is sanitized: no question in the response carries
\* correctIndex, so the correct index is visible only once the attempt is
\* Submitted.
C12_ProgressViewSanitized ==
  \A i \in CallIds :
    (calls[i].op = "get" /\ Done(i) /\ calls[i].resp.status = 200
       /\ ~calls[i].resp.submitted)
    => \A k \in DOMAIN calls[i].resp.questions :
         "correctIndex" \notin DOMAIN calls[i].resp.questions[k]

\* ---------------------------------------------------------------- C13
\* The bank as it was when the attempt was created, read off the question
\* copies the attempt stores.
SnapshotBank(doc) ==
  [q \in {doc.questions[k].questionId : k \in DOMAIN doc.questions} |->
     LET k == CHOOSE n \in DOMAIN doc.questions :
                doc.questions[n].questionId = q
     IN [status |-> "published",
         correctIndex |-> doc.questions[k].question.correctIndex]]

\* C13: an edit of the question bank made after the attempt was created
\* (another correctIndex, unpublishing, deletion) does not affect the
\* attempt: what submitTest computes and stores from the attempt it read
\* is what scoring against the unedited bank gives, and the stored result
\* of a submitted attempt is the one its own questions give.
C13_BankEditNoEffect ==
  \A i \in CallIds :
    (calls[i].op = "submit" /\ calls[i].wrote)
    => LET test == calls[i].test[1]
           results == ScoreResults(test.questions, SnapshotBank(test))
       IN /\ calls[i].results = results
          /\ calls[i].resp.correct = CountCorrect(results)
          /\ calls[i].resp.score =
               ScoreOf(CountCorrect(results), Len(test.questions))

\* ---------------------------------------------------------------- C14
\* C14: a saveAnswer call by the owner that arrives on a submitted attempt
\* is rejected with Conflict (409), is never acknowledged as saved and
\* writes nothing.
C14_SaveAfterSubmitConflict ==
  \A i \in CallIds :
    (calls[i].op = "save" /\ calls[i].sub0 /\ Done(i) /\ SameAttempt(i)
       /\ PassesOwnership(calls[i].user, db[calls[i].tid]))
    => /\ calls[i].resp.status = 409
       /\ ~calls[i].wrote

\* ---------------------------------------------------------------- C15
\* C15: a submitTest call whose three conditional writes all failed has
\* written nothing and answers either 200 with alreadySubmitted = true and
\* the stored result (the re-read found the attempt submitted) or Conflict
\* (409), and no other error.
C15_ExhaustedIsConflict ==
  \A i \in CallIds :
    (calls[i].op = "submit" /\ calls[i].retries = 0 /\ Done(i))
    => /\ ~calls[i].wrote
       /\ \/ calls[i].resp.status = 200 /\ calls[i].resp.alreadySubmitted
          \/ calls[i].resp.status = 409

\* ---------------------------------------------------------------- C16
\* C16: a submitTest call makes at most three read-score-write rounds,
\* whatever the other calls do: every failed conditional write uses up one
\* of the three retries, a call with no retry left does not read and score
\* again, and a finished call has answered with a result or an error.
C16_BoundedRetries ==
  \A i \in CallIds :
    calls[i].op = "submit"
    => /\ calls[i].retries \in 0..MaxRetries
       /\ calls[i].scored <= MaxRetries
       /\ calls[i].scored + calls[i].retries =
            MaxRetries + (IF calls[i].pc = "s_cas" \/ calls[i].wrote
                          THEN 1 ELSE 0)
       /\ calls[i].retries = 0 => calls[i].pc \in {"s_reread", "done"}
       /\ Done(i) => calls[i].resp.status \in {200, 403, 404, 500}

\* A Submit call lost all three conditional writes to deletions of the
\* attempt and has answered.
C16_Witness ==
  \E i \in CallIds :
    /\ calls[i].op = "submit" /\ Done(i)
    /\ calls[i].scored = MaxRetries /\ calls[i].retries = 0
    /\ ~calls[i].wrote

\* ---------------------------------------------------------------- C17
\* Questions of the attempt whose stored answer is not null and equals the
\* correct index the bank holds for the question.
CorrectlyAnswered(doc) ==
  {k \in DOMAIN doc.questions :
     /\ doc.questions[k].answer # Null
     /\ doc.questions[k].questionId \in DOMAIN bank
     /\ doc.questions[k].answer =
          bank[doc.questions[k].questionId].correctIndex}

Answers(doc) == [k \in DOMAIN doc.questions |-> doc.questions[k].answer]

\* C17: in a submitted attempt a question is marked correct iff its stored
\* answer is not null and equals the correct index of the question; correct
\* is the number of these questions and total the number of questions.
\* Answers [0, null, 2, 1] against correct indices [0, 1, 2, 3] give
\* correct = 2 and total = 4.
C17_CorrectIffEqual ==
  \A tid \in DOMAIN db :
    db[tid].submitted
    => /\ Len(db[tid].results) = Len(db[tid].questions)
       /\ \A k \in DOMAIN db[tid].results :
            db[tid].results[k].isCorrect <=> k \in CorrectlyAnswered(db[tid])
       /\ db[tid].correct = Cardinality(CorrectlyAnswered(db[tid]))
       /\ db[tid].total = Len(db[tid].questions)
       /\ Answers(db[tid]) = <<0, Null, 2, 1>>
            => db[tid].correct = 2 /\ db[tid].total = 4

\* The attempt answered [0, null, 2, 1] has been submitted and scored with
\* questions 1 and 3 correct.
C17_Witness ==
  \E tid \in DOMAIN db :
    /\ db[tid].submitted
    /\ Answers(db[tid]) = <<0, Null, 2, 1>>
    /\ [k \in 1..4 |-> db[tid].results[k].correctAnswer] = <<0, 1, 2, 3>>
    /\ [k \in 1..4 |-> db[tid].results[k].isCorrect]
         = <<TRUE, FALSE, TRUE, FALSE>>
    /\ db[tid].correct = 2 /\ db[tid].total = 4

\* ---------------------------------------------------------------- C18
\* C18: the stored score is (correct / total) * 100 rounded to two
\* decimals, correct being the number of correctly answered questions and
\* total the number of questions.  In hundredths of a percent: an integer
\* nearest to correct * 10000 / total.  It is 0.00 when no question is
\* answered, 100.00 when every answer is correct and 50.00 for 2 correct
\* of 4.
C18_ScoreRounded ==
  \A tid \in DOMAIN db :
    db[tid].submitted
    => LET c == Cardinality(CorrectlyAnswered(db[tid]))
           n == Len(db[tid].questions)
           s == db[tid].score
       IN /\ 2 * s * n - n <= 2 * c * 10000
          /\ 2 * c * 10000 <= 2 * s * n + n
          /\ (\A k \in 1..n : db[tid].questions[k].answer = Null) => s = 0
          /\ c = n => s = 10000
          /\ (c = 2 /\ n = 4) => s = 5000

\* Two of three questions were answered correctly and the stored score is
\* 66.67.
C18_Witness ==
  \E tid \in DOMAIN db :
    /\ db[tid].submitted
    /\ Len(db[tid].questions) = 3
    /\ Cardinality(CorrectlyAnswered(db[tid])) = 2
    /\ db[tid].score = 6667

\* ---------------------------------------------------------------- C19
\* C19: the result cache is never the only holder of a result: whenever it
\* has an entry for a testId, a submitted attempt with that testId is in
\* the collection and holds the same score, correct, total and results
\* (so after a successful deleteTest no cached result is left to serve).
C19_CacheBackedByAttempt ==
  \A tid \in DOMAIN cache :
    /\ tid \in DOMAIN db
    /\ db[tid].submitted
    /\ ResultFields(cache[tid]) = ResultFields(db[tid])

\* ---------------------------------------------------------------- C20
\* C20: only submitted results are written to the result cache: a
\* getTestResult call about to write the cache read the attempt submitted,
\* and every cache entry is a result view (submitted = true, with the
\* score, correct count and total of a scored attempt, no question list).
C20_OnlySubmittedCached ==
  /\ \A i \in CallIds :
       (calls[i].op = "get" /\ calls[i].pc = "g_set")
       => calls[i].test[1].submitted
  /\ \A tid \in DOMAIN cache :
       /\ cache[tid].status = 200
       /\ cache[tid].submitted
       /\ cache[tid].score # Null
       /\ cache[tid].correct # Null
       /\ cache[tid].total # Null
       /\ cache[tid].questions = <<>>

\* A result request arrived while the attempt was InProgress, read it
\* after a Submit had won, and its response is the cache entry.
C20_Witness ==
  \E i \in CallIds :
    /\ calls[i].op = "get" /\ Done(i) /\ ~calls[i].sub0
    /\ calls[i].tid \in DOMAIN cache
    /\ cache[calls[i].tid] = calls[i].resp
    /\ calls[i].resp.submitted /\ calls[i].resp.total = 2

\* ---------------------------------------------------------------- C21
\* C21: getTestResult called by the authenticated owner of an owned
\* attempt that is in the collection is never answered 403: it answers 200
\* with the in-progress view or with the result.
C21_OwnerGetsResult ==
  \A i \in CallIds :
    (calls[i].op = "get" /\ Done(i) /\ calls[i].user # Null
       /\ SameAttempt(i) /\ db[calls[i].tid].userId = calls[i].user)
    => calls[i].resp.status = 200

\* ---------------------------------------------------------------- C22
\* The step is the accepted update of save call i.
SaveAccepted(i) ==
  /\ i \in CallIds
  /\ calls[i].op = "save" /\ calls[i].pc = "v_update"
  /\ calls'[i].pc = "done" /\ calls'[i].resp.status = 200

\* C22: an accepted saveAnswer for question q changes only q's entry of
\* the attempt: the answer only if the body has an answer, flagged only if
\* the body has flagged.  Every other question entry, every other field of
\* the attempt (submitted, userId, sessionId, score, correct, total,
\* results, version), the other attempts, the bank and the cache stay as
\* they are.
C22_SaveFrame ==
  [][\A i \in 1..MaxCalls :
       SaveAccepted(i)
       => LET c == calls[i]
              old == db[c.tid]
              new == db'[c.tid]
          IN /\ DOMAIN db' = DOMAIN db
             /\ \A x \in DOMAIN db \ {c.tid} : db'[x] = db[x]
             /\ [new EXCEPT !.questions = old.questions] = old
             /\ Len(new.questions) = Len(old.questions)
             /\ \A k \in DOMAIN old.questions :
                  IF old.questions[k].questionId # c.questionId
                  THEN new.questions[k] = old.questions[k]
                  ELSE /\ new.questions[k].questionId = c.questionId
                       /\ new.questions[k].question = old.questions[k].question
                       /\ c.answer = Undef
                            => new.questions[k].answer = old.questions[k].answer
                       /\ c.flagged = Undef
                            => new.questions[k].flagged
                                 = old.questions[k].flagged
             /\ bank' = bank /\ cache' = cache]_vars

\* An answer-only save on question 1 and a flag-only save on question 2
\* were both accepted: question 1 is answered and not flagged, question 2
\* is flagged and not answered.
C22_Witness ==
  \E i, j \in CallIds :
    /\ calls[i].op = "save" /\ calls[j].op = "save"
    /\ calls[i].wrote /\ calls[j].wrote
    /\ calls[i].questionId = 1 /\ calls[i].answer = 0
    /\ calls[i].flagged = Undef
    /\ calls[j].questionId = 2 /\ calls[j].answer = Undef
    /\ calls[j].flagged = 1
    /\ calls[i].tid = calls[j].tid /\ calls[i].tid \in DOMAIN db
    /\ LET q == db[calls[i].tid].questions
       IN /\ q[1].answer = 0 /\ ~q[1].flagged
          /\ q[2].answer = Null /\ q[2].flagged

\* ---------------------------------------------------------------- C23
\* Save calls whose update, carrying an answer for question q of attempt
\* tid, is applied in this step.
AnswerApplied(tid, q) ==
  {i \in 1..MaxCalls :
     /\ SaveAccepted(i)
     /\ calls[i].tid = tid /\ calls[i].questionId = q
     /\ calls[i].answer # Undef}

\* C23: last accepted write wins.  The step that applies an accepted
\* saveAnswer with an answer for question q leaves that call's value as the
\* stored answer of q, and no other step changes the stored answer of q;
\* so at any time the stored answer is that of the update applied last.
C23_LastWriteWins ==
  [][\A tid \in DOMAIN db \cap DOMAIN db' :
       \A k \in DOMAIN db[tid].questions :
         LET q == db[tid].questions[k].questionId
             applied == AnswerApplied(tid, q)
         IN IF applied = {}
            THEN db'[tid].questions[k].answer = db[tid].questions[k].answer
            ELSE \E i \in applied :
                   db'[tid].questions[k].answer = calls[i].answer]_vars

\* Two accepted saves on question 1, answers 0 and 1: the call that arrived
\* first was applied last and its answer is the stored one.
C23_Witness ==
  \E i, j \in CallIds :
    /\ i < j
    /\ calls[i].op = "save" /\ calls[j].op = "save"
    /\ calls[i].wrote /\ calls[j].wrote
    /\ calls[i].tid = calls[j].tid /\ calls[i].tid \in DOMAIN db
    /\ calls[i].questionId = 1 /\ calls[j].questionId = 1
    /\ calls[i].answer = 0 /\ calls[j].answer = 1
    /\ db[calls[i].tid].questions[1].answer = 0

\* ---------------------------------------------------------------- C24
\* C24: the status of an attempt is one-way.  In every step, an attempt
\* (a document, by _id) that is submitted and stays in the collection stays
\* submitted, and a step that changes submitted is the successful
\* conditional write of a submitTest call on that attempt.
C24_StatusOneWay ==
  [][\A tid \in DOMAIN db \cap DOMAIN db' :
       db'[tid]._id = db[tid]._id
       => /\ db[tid].submitted => db'[tid].submitted
          /\ db'[tid].submitted # db[tid].submitted
               => \E i \in CallIds :
                    /\ calls[i].op = "submit" /\ calls[i].tid = tid
                    /\ calls[i].pc = "s_cas"
                    /\ calls'[i].wrote]_vars

\* The attempt was submitted, a later createTest that produced the same
\* testId was refused, and the attempt is still there, submitted.
C24_Witness ==
  \E i, j \in CallIds :
    /\ calls[i].op = "submit" /\ calls[i].wrote
    /\ calls[j].op = "create" /\ Done(j) /\ calls[j].resp.status = 500
    /\ SameAttempt(i) /\ db[calls[i].tid].submitted

\* ---------------------------------------------------------------- C25
\* C25: no partial state is stored.  A submitted attempt has submittedAt,
\* score, correct, total and a result for every question; an attempt that
\* is not submitted has none of them (null, results empty).
C25_NoPartialState ==
  \A tid \in DOMAIN db :
    LET d == db[tid]
    IN IF d.submitted
       THEN /\ d.submittedAt # Null /\ d.score # Null
            /\ d.correct # Null /\ d.total # Null
            /\ Len(d.results) = Len(d.questions) /\ d.results # <<>>
       ELSE /\ d.submittedAt = Null /\ d.score = Null
            /\ d.correct = Null /\ d.total = Null
            /\ d.results = <<>>

\* A Submit call has written the whole field set of an attempt with one
\* correct answer out of two.
C25_Witness ==
  \E i \in CallIds :
    /\ calls[i].op = "submit" /\ calls[i].wrote /\ SameAttempt(i)
    /\ LET d == db[calls[i].tid]
       IN /\ d.submitted /\ d.submittedAt = now
          /\ d.score = 5000 /\ d.correct = 1 /\ d.total = 2
          /\ Len(d.results) = 2

\* ---------------------------------------------------------------- C26
\* C26: an attempt keeps the questions captured when it was created (here
\* the Len(InitQuestions) questions createTest loaded), whatever happens
\* to the bank afterwards, and the total of a submitted attempt is their
\* number.
C26_TotalIsCaptured ==
  \A tid \in DOMAIN db :
    /\ Len(db[tid].questions) = Len(InitQuestions)
    /\ \A k \in DOMAIN db[tid].questions :
         db[tid].questions[k].questionId = InitQuestions[k]._id
    /\ db[tid].submitted
         => /\ db[tid].total = Len(InitQuestions)
            /\ Len(db[tid].results) = Len(InitQuestions)

\* A question of the attempt was deleted from the bank, another was
\* unpublished or edited, and the attempt submitted afterwards has total 2.
C26_Witness ==
  \E i \in CallIds :
    /\ calls[i].op = "submit" /\ calls[i].wrote /\ SameAttempt(i)
    /\ \E q \in Questions : bank[q].status = "deleted"
    /\ \E k \in 1..2 : calls[i].results[k].correctAnswer = Null
    /\ db[calls[i].tid].total = 2
    /\ Len(db[calls[i].tid].questions) = 2

\* ---------------------------------------------------------------- C27
\* C27: an attempt has exactly one ownership regime, fixed when it is
\* created: createTest stores either a userId or a sessionId, never both
\* and never neither, and no later step changes the userId or the
\* sessionId of an attempt.
C27_OwnershipFixed ==
  [][\A tid \in DOMAIN db' :
       /\ (db'[tid].userId # Null) # (db'[tid].sessionId # Null)
       /\ (tid \in DOMAIN db /\ db[tid]._id = db'[tid]._id)
            => /\ db'[tid].userId = db[tid].userId
               /\ db'[tid].sessionId = db[tid].sessionId]_vars

\* An anonymous attempt has been created, submitted and read back: it has
\* a session token and no owner.
C27_Witness ==
  \E i, j \in CallIds :
    /\ calls[i].op = "submit" /\ calls[i].wrote /\ SameAttempt(i)
    /\ calls[j].op = "get" /\ Done(j) /\ calls[j].resp.status = 200
    /\ calls[j].tid = calls[i].tid /\ calls[j].resp.submitted
    /\ db[calls[i].tid].userId = Null
    /\ db[calls[i].tid].sessionId # Null

\* What getTestResult answers when it reads the attempt itself.
DirectRead(user, tid) ==
  LET found == FindOne(tid)
  IN IF found = <<>> THEN Resp(404)
     ELSE LET test == Select(found[1], FALSE)
          IN IF NotAuthorized(user, test.userId) THEN Resp(403)
             ELSE IF ~test.submitted THEN ProgressView(test)
             ELSE ResultView(test)

\* A getTestResult call answers in this step while Redis is lost.
AnswersDegraded(i) ==
  /\ calls[i].op = "get" /\ calls[i].pc # "done"
  /\ calls'[i].pc = "done"
  /\ ~isConnected

MissingRef(c) ==
  \/ c.questionPaperId # Undef /\ c.questionPaperId \notin Papers
  \/ c.examId # Undef /\ c.examId \notin Exams

\* The published questions the request selects: those it lists, or those
\* of the paper or exam it names.
Matching(c) ==
  {q \in Questions :
     /\ bank[q].status = "published"
     /\ IF c.questions # <<>>
        THEN \E k \in 1..Len(c.questions) : c.questions[k] = q
        ELSE /\ c.questionPaperId # Undef => PaperOf(q) = c.questionPaperId
             /\ c.examId # Undef => ExamOf(q) = c.examId}

\* Call i ends in this step with the given status and the collection is
\* as before.
FailsWith(i, status) ==
  /\ calls'[i].pc = "done"
  /\ calls'[i].resp.status = status
  /\ db' = db

\* C29: a createTest call that names a question paper or exam which does
\* not exist ends with 404, and one whose existing paper, exam or list
\* selects no published question ends with 400, at the step that queries
\* the bank for them (the pool query, or the load when the request lists
\* the ids); that step inserts no attempt, and none was inserted before.
C29_CreateFailures ==
  [][\A i \in 1..Len(calls) :
       (/\ calls[i].op = "create" /\ calls[i].pc \in {"c_pool", "c_load"}
        /\ calls'[i] # calls[i])
       => /\ MissingRef(calls[i]) => FailsWith(i, 404)
          /\ (/\ ~MissingRef(calls[i])
              /\ calls[i].questionPaperId # Undef \/ calls[i].examId # Undef
              /\ calls[i].pc = "c_pool" => calls[i].questions = <<>>
              /\ Matching(calls[i]) = {})
             => FailsWith(i, 400)]_vars

\* One createTest call was refused for a missing paper or exam and one for
\* an empty pool, and the collection is still empty.
C29_Witness ==
  /\ db = <<>>
  /\ \E i, j \in 1..Len(calls) :
       /\ calls[i].op = "create" /\ Done(i) /\ MissingRef(calls[i])
       /\ calls[i].resp.status = 404
       /\ calls[j].op = "create" /\ Done(j) /\ ~MissingRef(calls[j])
       /\ calls[j].questionPaperId # Undef
       /\ calls[j].resp.status = 400

\* C30: a step of a submitTest call, whatever its outcome, leaves the
\* question bank as it is, adds and removes no attempt, and leaves every
\* attempt other than the one the call names as it is.
C30_SubmitFrame ==
  [][\A i \in 1..Len(calls) :
       (calls[i].op = "submit" /\ calls'[i] # calls[i])
       => /\ bank' = bank
          /\ DOMAIN db' = DOMAIN db
          /\ \A x \in DOMAIN db \ {calls[i].tid} : db'[x] = db[x]]_vars

\* Of two submitTest calls one has written its attempt and the other was
\* refused or short-circuited, and the attempt the first did not name is
\* still as it was in the beginning.
C30_Witness ==
  \E i, j \in 1..Len(calls), x \in DOMAIN db :
    /\ calls[i].op = "submit" /\ calls[i].wrote
    /\ x # calls[i].tid /\ ~db[x].submitted
    /\ calls[j].op = "submit" /\ Done(j)
    /\ calls[j].resp.status = 403 \/ calls[j].resp.alreadySubmitted

\* C31: an attempt leaves the collection only in the deleteOne step of a
\* deleteTest call on it whose caller passes the ownership rule of that
\* attempt and which answers 200; a deleteTest call that ends with 403 or
\* 404 leaves the collection as it is, and no step of any route replaces
\* an attempt by another one.
C31_OnlyOwnerDeletes ==
  [][/\ \A x \in DOMAIN db \ DOMAIN db' :
          \E i \in 1..Len(calls) :
            /\ calls[i].op = "delete" /\ calls[i].tid = x
            /\ calls[i].pc = "d_delete" /\ calls'[i].pc = "done"
            /\ calls'[i].resp.status = 200
            /\ PassesOwnership(calls[i].user, db[x])
     /\ \A x \in DOMAIN db \cap DOMAIN db' : db'[x]._id = db[x]._id
     /\ \A i \in 1..Len(calls) :
          (/\ calls[i].op = "delete" /\ calls[i].pc # "done"
           /\ calls'[i].pc = "done"
           /\ calls'[i].resp.status \in {403, 404})
          => db' = db]_vars

\* The owner's deleteTest call has removed the attempt and another caller's
\* deleteTest call on it was refused or found nothing.
C31_Witness ==
  \E i, j \in 1..Len(calls) :
    /\ calls[i].op = "delete" /\ Done(i) /\ calls[i].wrote
    /\ calls[i].tid \notin DOMAIN db
    /\ calls[j].op = "delete" /\ Done(j)
    /\ calls[j].resp.status \in {403, 404}

\* The ids of a sequence of question documents, each created after the one
\* before it.
AscendingIds(docs) ==
  \A k, l \in 1..Len(docs) : k < l => docs[k]._id < docs[l]._id

\* C32: the questions a createTest call loads for the attempt are published
\* when it loads them and are in ascending creation order, also when the
\* request lists the ids in another order; the attempt it then inserts
\* holds exactly these questions in that order.
C32_PublishedInOrder ==
  [][\A i \in 1..Len(calls) :
       (calls[i].op = "create" /\ calls'[i] # calls[i])
       => /\ (calls[i].pc = "c_load" /\ calls'[i].pc = "c_insert")
             => LET docs == calls'[i].testQuestions
                IN /\ Len(docs) > 0
                   /\ \A k \in 1..Len(docs) :
                        bank[docs[k]._id].status = "published"
                   /\ AscendingIds(docs)
          /\ (calls[i].pc = "c_insert" /\ calls'[i].resp.status = 201)
             => LET docs == calls[i].testQuestions
                    test == db'[calls'[i].tid]
                IN /\ calls'[i].tid \notin DOMAIN db
                   /\ AscendingIds(docs)
                   /\ Len(test.questions) = Len(docs)
                   /\ \A k \in 1..Len(docs) :
                        test.questions[k].questionId = docs[k]._id]_vars

\* A createTest call whose request lists question 2 before question 1 has
\* started an attempt of both questions.
C32_Witness ==
  \E i \in 1..Len(calls) :
    /\ calls[i].op = "create" /\ Done(i) /\ calls[i].resp.status = 201
    /\ calls[i].questions = <<2, 1>>
    /\ calls[i].tid \in DOMAIN db
    /\ Len(db[calls[i].tid].questions) = 2

\* The testIds of the attempts the server can start with.
InitTids == {TestIdOf(0, 1, Null), TestIdOf(0, Null, 1)}

\* A submitTest call by a caller who passes the ownership rule is in
\* flight on the attempt, which is in the collection and InProgress.
SubmitPending(tid) ==
  /\ tid \in DOMAIN db /\ ~db[tid].submitted
  /\ \E i \in 1..Len(calls) :
       /\ calls[i].op = "submit" /\ calls[i].tid = tid /\ Running(i)
       /\ PassesOwnership(calls[i].user, db[tid])

\* C33: with every handler scheduled fairly and the attempt never deleted,
\* an authorized submitTest call in flight on an InProgress attempt leads
\* to the attempt being Submitted, whatever answer and submit calls run
\* on the attempt at the same time.
C33_SubmitEventually ==
  \A tid \in InitTids :
    SubmitPending(tid) ~> (tid \in DOMAIN db /\ db[tid].submitted)

\* The attempt was submitted by a call that ran while another answer or
\* submit call on the attempt was in flight.
C33_Witness ==
  \E i, j \in 1..Len(calls) :
    /\ i # j /\ calls[i].tid = calls[j].tid
    /\ calls[i].op = "submit" /\ calls[i].wrote
    /\ db[calls[i].tid].submitted
    /\ calls[i].overlap \/ calls[j].overlap

\* C34: a saveAnswer call answers 200 'Answer saved' only in a step after
\* which the attempt has an entry for the questionId of the request, and
\* that entry holds the answer of the request when the request has one.
C34_AckOnlyIfStored ==
  [][\A i \in 1..Len(calls) :
       (/\ calls[i].op = "save" /\ calls[i].pc # "done"
        /\ calls'[i].pc = "done" /\ calls'[i].resp.status = 200)
       => /\ calls[i].tid \in DOMAIN db'
          /\ \E k \in DOMAIN db'[calls[i].tid].questions :
               LET q == db'[calls[i].tid].questions[k]
               IN /\ q.questionId = calls[i].questionId
                  /\ calls[i].answer # Undef
                     => q.answer = calls[i].answer]_vars

\* C35: any two finished createTest calls both answered 201, with two
\* different testIds.
C35_DistinctIds ==
  \A i, j \in 1..Len(calls) :
    (/\ i # j
     /\ calls[i].op = "create" /\ Done(i)
     /\ calls[j].op = "create" /\ Done(j))
    => /\ calls[i].resp.status = 201
       /\ calls[j].resp.status = 201
       /\ calls[i].tid # calls[j].tid

\* C36: every attempt in the collection has at least one question, and a
\* Submitted one has 0 <= correct <= total = number of its questions and a
\* score between 0 and 100 (kept in hundredths: 0..10000).
C36_AttemptBounds ==
  \A tid \in DOMAIN db :
    LET test == db[tid]
    IN /\ Len(test.questions) >= 1
       /\ test.submitted
          => /\ 0 <= test.correct /\ test.correct <= test.total
             /\ test.total = Len(test.questions)
             /\ 0 <= test.score /\ test.score <= 10000

\* An attempt started by createTest was submitted with one of its two
\* questions answered correctly.
C36_Witness ==
  \E i \in 1..Len(calls), tid \in DOMAIN db :
    /\ calls[i].op = "create" /\ calls[i].tid = tid
    /\ db[tid].submitted
    /\ db[tid].correct = 1 /\ db[tid].total = 2
    /\ db[tid].score = 5000

\* The header carries a bearer token that verifies and names a user who
\* exists.
ValidTokenOf(h, user) ==
  /\ h # <<>> /\ h[1] = "Bearer"
  /\ user \in Users /\ VerifyToken(h[2]) = user

\* C37: optionalAuthenticate never answers the request itself; when it
\* calls next(), req.user is null or a user, it is a user only if the
\* header carries a valid token of that existing user, and so it is null
\* for a missing or malformed header, a token that does not verify and a
\* token of a user who is gone.
C37_NeverRejects ==
  \A i \in 1..Len(calls) :
    calls[i].op = "auth"
    => /\ calls[i].resp.status = 0
       /\ Done(i)
          => /\ calls[i].user \in Users \cup {Null}
             /\ calls[i].user # Null
                => ValidTokenOf(calls[i].authHeader, calls[i].user)

\* One request went on as user 1 and one with a token that does not
\* verify went on as anonymous.
C37_Witness ==
  \E i, j \in 1..Len(calls) :
    /\ calls[i].op = "auth" /\ Done(i) /\ calls[i].user = 1
    /\ calls[j].op = "auth" /\ Done(j) /\ calls[j].user = Null
    /\ calls[j].authHeader \in {<<"Bearer", "expired">>,
                                <<"Bearer", "garbage">>}

\* ------------------------------------------------- the in-memory cache
\* The in-memory cache called directly: each call is synchronous, so it is
\* one step and is recorded as finished.
MemClock == MaxClock + 1
MemCalls == MaxCalls + 1
MemKeys == {TestIdOf(0, 1, Null), TestIdOf(0, Null, 1)}
MemValues == {[Resp(200) EXCEPT !.score = s] : s \in {0, 100}}
MemTtls == {1, 2}

MemCall(op, key, value, ttl) ==
  [NewCall(op, Null, key, Undef, Undef, FALSE, "done")
     EXCEPT !.value = value, !.ttl = ttl, !.at = now]

\* cacheService.set(key, value, ttl)
MemorySet ==
  /\ Len(calls) < MemCalls
  /\ \E key \in MemKeys, value \in MemValues, ttl \in MemTtls :
       /\ fallbackCache' = MemSet(fallbackCache, key, value, ttl, now)
       /\ calls' = Append(calls, MemCall("mset", key, <<value>>, ttl))
  /\ UNCHANGED <<db, bank, cache, isConnected, now, nextOid, nextSession,
                 created>>

\* cacheService.get(key)
MemoryGet ==
  /\ Len(calls) < MemCalls
  /\ \E key \in MemKeys :
       /\ fallbackCache' = MemAfterGet(fallbackCache, key, now)
       /\ calls' = Append(calls, MemCall("mget", key,
                                         MemGet(fallbackCache, key, now),
                                         Undef))
  /\ UNCHANGED <<db, bank, cache, isConnected, now, nextOid, nextSession,
                 created>>

\* cacheService.cleanup(), run on a timer: expired entries are deleted.
MemoryCleanup ==
  /\ fallbackCache' =
       [key \in {k \in DOMAIN fallbackCache :
                   ~MemExpired(fallbackCache[k], now)}
          |-> fallbackCache[key]]
  /\ UNCHANGED <<db, bank, cache, isConnected, calls, now, nextOid,
                 nextSession, created>>

\* Date.now() moves on.
MemoryTick ==
  /\ now < MemClock
  /\ now' = now + 1
  /\ UNCHANGED <<db, bank, cache, isConnected, fallbackCache, calls,
                 nextOid, nextSession, created>>

NextMemory == MemorySet \/ MemoryGet \/ MemoryCleanup \/ MemoryTick

SpecMemory == InitEmpty /\ [][NextMemory]_vars

\* The set calls on the key of call j that came before it.
SetsBefore(j) ==
  {i \in 1..(j - 1) : calls[i].op = "mset" /\ calls[i].tid = calls[j].tid}

\* The last of them.
LastSet(j) == CHOOSE i \in SetsBefore(j) : \A k \in SetsBefore(j) : k <= i

\* Call j is a get that comes after a set on its key.
GetAfterSet(j) == calls[j].op = "mget" /\ SetsBefore(j) # {}

\* Call j is past the expiry time the last set on its key gave the entry.
PastExpiry(j) == calls[j].at > calls[LastSet(j)].at + calls[LastSet(j)].ttl

\* C38: a get after a set on the same key returns the value of the last
\* such set while the clock is not past that set's time plus its ttl, and
\* returns null once it is; after a get that returned null the key is not
\* in the cache until it is set again.
C38_GetAfterSet ==
  \A j \in 1..Len(calls) :
    /\ GetAfterSet(j)
       => calls[j].value = IF PastExpiry(j) THEN <<>>
                           ELSE calls[LastSet(j)].value
    /\ (/\ calls[j].op = "mget" /\ calls[j].value = <<>>
        /\ \A k \in (j + 1)..Len(calls) :
             ~(calls[k].op = "mset" /\ calls[k].tid = calls[j].tid))
       => calls[j].tid \notin DOMAIN fallbackCache

\* A set, a get on the same key at the expiry time that hits, then a get
\* past the expiry that returns null and removes the entry.
C38_Witness ==
  /\ Len(calls) = 3
  /\ calls[1].op = "mset" /\ calls[2].op = "mget" /\ calls[3].op = "mget"
  /\ calls[2].tid = calls[1].tid /\ calls[3].tid = calls[1].tid
  /\ calls[2].at = calls[1].at + calls[1].ttl
  /\ calls[2].value = calls[1].value
  /\ calls[3].value = <<>>
  /\ calls[1].tid \notin DOMAIN fallbackCache

\* ------------------------------------------- the in-memory table variant
\* The variant of the controller that keeps attempts in TestAttempt.tests,
\* a Map of the process: db is that Map.  Its routes require a logged-in
\* user.  A handler holds the attempt by reference, so what it reads after
\* an await is the attempt as it then is.  Map operations do not await.

\* An attempt of user 1 is in the table.
InitTable ==
  /\ Init
  /\ \A tid \in DOMAIN db : db[tid].userId # Null

\* question.answer = Number(answer), Number(null) being 0;
\* question.flagged = flagged.
TableApplySave(questions, questionId, answer, flagged) ==
  [k \in DOMAIN questions |->
     IF questions[k].questionId = questionId
     THEN [questions[k] EXCEPT
             !.answer = IF answer = Undef THEN @
                        ELSE IF answer = Null THEN 0 ELSE ToNumber(answer),
             !.flagged = IF flagged = Undef THEN @ ELSE flagged = 1]
     ELSE questions[k]]

\* score = (correct / len) * 100 as stored, in hundredths of a percent;
\* the division is exact for the attempts of InitTable.
TableScore(correct, len) == (correct * 10000) \div len

\* A logged-in user calls the answer or the submit route.
BeginTable ==
  /\ Len(calls) < MaxCalls
  /\ \E tid \in created, user \in Users :
       \/ \E r \in OwnerSaves :
            calls' = Append(calls, NewCall("save", user, tid, r[1], r[2],
                                           r[3], "t_save"))
       \/ calls' = Append(calls, NewCall("submit", user, tid, Null, Undef,
                                         Undef, "t_check"))
  /\ UNCHANGED <<db, bank, cache, isConnected, fallbackCache, now,
                 nextOid, nextSession, created>>

\* saveAnswer: no await, the whole handler is one step.
TableSave(i) ==
  /\ Running(i) /\ calls[i].pc = "t_save"
  /\ LET c == calls[i]
         test == FindOne(c.tid)
     IN IF test = <<>>
        THEN calls' = Finish(i, Resp(404)) /\ UNCHANGED db
        ELSE IF test[1].userId # c.user
        THEN calls' = Finish(i, Resp(403)) /\ UNCHANGED db
        ELSE IF test[1].submitted
        THEN calls' = Finish(i, Resp(400)) /\ UNCHANGED db
        ELSE /\ db' = [db EXCEPT ![c.tid].questions =
                         TableApplySave(@, c.questionId, c.answer,
                                        c.flagged)]
             /\ calls' = [Finish(i, Resp(200)) EXCEPT ![i].wrote = TRUE]
  /\ UNCHANGED <<bank, cache, isConnected, fallbackCache, now,
                 nextOid, nextSession, created>>

\* submitTest up to await Question.find(...): the lookup, the identity
\* check and the submitted check.
TableSubmitCheck(i) ==
  /\ Running(i) /\ calls[i].pc = "t_check"
  /\ LET c == calls[i]
         test == FindOne(c.tid)
     IN calls' =
          IF test = <<>> THEN Finish(i, Resp(404))
          ELSE IF test[1].userId # c.user THEN Finish(i, Resp(403))
          ELSE IF test[1].submitted THEN Finish(i, Resp(400))
          ELSE [calls EXCEPT ![i].pc = "t_score", ![i].test = test]
  /\ UNCHANGED <<db, bank, cache, isConnected, fallbackCache, now,
                 nextOid, nextSession, created>>

\* submitTest after the await: the scoring loop over the attempt held by
\* reference, the assignments to it, TestAttempt.tests.set and the
\* response.
TableSubmitScore(i) ==
  /\ Running(i) /\ calls[i].pc = "t_score"
  /\ LET c == calls[i]
         test == db[c.tid]
         results == ScoreResults(test.questions, bank)
         correct == CountCorrect(results)
         len == Len(test.questions)
     IN /\ db' = [db EXCEPT ![c.tid] =
                    [test EXCEPT !.submitted = TRUE, !.submittedAt = now,
                                 !.score = TableScore(correct, len),
                                 !.correct = correct, !.total = len,
                                 !.results = results]]
        /\ calls' = [Finish(i, [Resp(200) EXCEPT
                                  !.score = ScoreOf(correct, len),
                                  !.correct = correct, !.total = len,
                                  !.results = results])
                       EXCEPT ![i].results = results,
                              ![i].correct = correct,
                              ![i].scored = @ + 1, ![i].wrote = TRUE]
  /\ UNCHANGED <<bank, cache, isConnected, fallbackCache, now,
                 nextOid, nextSession, created>>

NextTable ==
  \/ BeginTable
  \/ \E i \in 1..MaxCalls : TableSave(i)
  \/ \E i \in 1..MaxCalls : TableSubmitCheck(i)
  \/ \E i \in 1..MaxCalls : TableSubmitScore(i)

SpecTable == InitTable /\ [][NextTable]_vars

\* Call i is a submitTest call on attempt tid that passed the submitted
\* check, scored and wrote the Submitted state.
ScoredAndWrote(i, tid) ==
  /\ calls[i].op = "submit" /\ calls[i].tid = tid
  /\ calls[i].test # <<>> /\ ~calls[i].test[1].submitted
  /\ calls[i].scored = 1 /\ calls[i].wrote

\* C39: in the in-memory table variant, of the submitTest calls on one
\* in-progress attempt at most one passes the submitted check, scores and
\* writes the Submitted state.
C39_OneSubmitWrites ==
  \A tid \in DOMAIN db :
    Cardinality({i \in 1..Len(calls) : ScoredAndWrote(i, tid)}) <= 1
====
